---- MODULE Spec2Model ----
(***************************************************************************)
(* Movix: the playback engines (VideoPlayer / MoviePlayer facades with     *)
(* their decode worker threads, command and frame channels) and the stream *)
(* resolution service (providers and resolvers tried in order).            *)
(***************************************************************************)
EXTENDS Integers, Sequences, FiniteSets, TLC

VARIABLES
    lim,        \* the limits of this run: engines operated, plays, pending commands, media
    player,     \* player[e]: the fields of the facade struct of engine e
    call,       \* call[e]: the stop()/play() call of engine e that is waiting in join()
    worker,     \* worker[e]: the decode threads spawned by engine e, in spawn order
    delivered,  \* delivered[e]: frames handed out as new since the last stop()
    ret,        \* ret[e]: what render_frame()/get_new_frame() returned last since the last stop()
    svc,        \* the run of StreamingService::get_stream_url
    voe,        \* the run of VoeResolver::resolve
    pure,       \* the call of a function without state: its name, argument and result
    app         \* the application's progress store and resolved-URL cache

vars == <<lim, player, call, worker, delivered, ret, svc, voe, pure, app>>

engineVars == <<lim, player, call, worker, delivered, ret>>

\* What the playback engines never touch
sideVars == <<svc, voe, pure, app>>

-----------------------------------------------------------------------------
(* Bounds of the model *)

\* play() calls per engine in a run
MaxPlays == 2
\* commands pending in one command channel (the channel itself is unbounded)
MaxCmds == 1
\* video packets of the long container beyond the frame channel's capacity
ExtraPkts == 1
\* play() calls per engine when two engines run side by side
PairPlays == 1
\* pending commands per engine when two engines run side by side
PairCmds == 1
\* providers registered with a StreamingService
MaxProviders == 2
\* resolvers registered with a StreamingService
MaxResolvers == 2

(* Program constants *)

\* crossbeam_channel::bounded(4)
FrameCap == 4

-----------------------------------------------------------------------------
(* The engines and the media they are given *)

Engines == {"hero", "movie"}

\* hero_player is a VideoPlayer, movie_player a MoviePlayer
Kind(e) == IF e = "movie" THEN "MoviePlayer" ELSE "VideoPlayer"

\* A packet of a container: the stream it belongs to and its presentation time
Pkt(s, t) == [stream |-> s, pts |-> t]

\* What ffmpeg finds at a URL: the packets in container order ("bad" cannot be opened)
Container(url) ==
    CASE url = "long" -> [i \in 1..(FrameCap + ExtraPkts) |-> Pkt("video", i)]
      [] url = "av"   -> <<Pkt("audio", 1), Pkt("video", 2)>>
      [] url = "data" -> <<Pkt("data", 1)>>
      [] url = "neg"  -> <<Pkt("video", 0 - 1)>>
      [] OTHER        -> <<>>

Opens(url) == url # "bad"

\* (media id, url) pairs a caller passes to play()
Catalog == {<<1, "long">>, <<2, "av">>, <<3, "data">>, <<4, "bad">>}

PairCatalog == {<<2, "av">>}

\* A medium whose video frame has a negative presentation time, and a sound one
PanicCatalog == {<<5, "neg">>, <<2, "av">>}

\* The families of facade calls that send commands
Families == {"transport", "audio"}

\* volumes in percent
Volumes == {50}

-----------------------------------------------------------------------------
(* The facade struct and the worker thread *)

\* VideoPlayer::new / MoviePlayer::new (0 and "None" stand for Option::None)
NewPlayer ==
    [current_media_id |-> 0, current_frame |-> 0, frame_receiver |-> 0,
     command_sender |-> 0, decoder_thread |-> 0, is_playing |-> FALSE,
     is_muted |-> FALSE, is_ended |-> FALSE, shared_state |-> 0,
     volume |-> 100, current_url |-> "None"]

\* The thread spawned by play(): its locals, its ends of the two channels, its sink
\* and (MoviePlayer) the SharedState created for it
NewWorker(url) ==
    [pc |-> "audio_out", url |-> url, next |-> 1, is_paused |-> FALSE,
     cmdq |-> <<>>, frameq |-> <<>>, rx |-> TRUE, sent |-> <<>>,
     sinkq |-> 0, sink_paused |-> FALSE, sink_vol |-> 100,
     position |-> 0, is_ended |-> FALSE, exit |-> "none"]

NoCall == [op |-> "none", handle |-> 0, id |-> 0, url |-> "None"]

Alive(w) == w.pc # "done"

\* The ended flag the facade reads: VideoPlayer keeps one AtomicBool for all its
\* workers, MoviePlayer reads the SharedState of its latest play()
Ended(e) ==
    IF Kind(e) = "VideoPlayer" THEN player[e].is_ended
    ELSE IF player[e].shared_state = 0 THEN FALSE
    ELSE worker[e][player[e].shared_state].is_ended

Position(e) ==
    IF player[e].shared_state = 0 THEN 0
    ELSE worker[e][player[e].shared_state].position

-----------------------------------------------------------------------------
(* Channels *)

Cmd(c, v) == [c |-> c, v |-> v]

\* sender.send(cmd) with the result ignored: the command is queued while the worker
\* still holds the receiver, and lost once the thread is gone
SendCmd(ws, h, cmd) ==
    IF h = 0 THEN ws
    ELSE IF ~Alive(ws[h]) THEN ws
    ELSE [ws EXCEPT ![h].cmdq = Append(@, cmd)]

\* Room for one more pending command within the bound of the model
CmdRoom(e) ==
    LET h == player[e].command_sender
    IN  IF h = 0 THEN TRUE
        ELSE IF ~Alive(worker[e][h]) THEN TRUE
        ELSE Len(worker[e][h].cmdq) < lim.cmds

\* A frame channel that takes every frame (unbounded)
CanSendAlways(w) == TRUE

\* frame_sender.send(frame) returns only when the bounded channel has room
CanSend(w) == Len(w.frameq) < FrameCap

\* A receive that hands out the newest frame of the channel
TryRecvNewest(q) == q[Len(q)]

\* receiver.try_recv(): the oldest frame in the channel
TryRecv(q) == Head(q)

\* The channel after try_recv() took a frame
AfterRecv(q) == Tail(q)

\* stop() that sends Shutdown and does not wait for the thread
JoinSkipped(w) == TRUE

\* A join that hands the panic of the thread on to its caller, which never returns
JoinUnlessPanicked(w) == ~Alive(w) /\ w.exit # "panic"

\* handle.join() returns when the thread has exited
JoinDone(w) == ~Alive(w)

\* self.frame_receiver = None: the channel and what it still holds are gone
DropReceiver(ws, r) ==
    IF r = 0 THEN ws
    ELSE [ws EXCEPT ![r].frameq = <<>>, ![r].rx = FALSE, ![r].sent = <<>>]

-----------------------------------------------------------------------------
(* The facade: VideoPlayer / MoviePlayer *)

Idle(e) == e \in lim.scope /\ call[e].op = "none"

\* The calls of one family (transport: pause/resume, audio: mute/volume) are made in this run
Driven(family) == family \in lim.ops

\* The assignments of stop() after the join
StoppedPlayer(p) ==
    [p EXCEPT !.frame_receiver = 0, !.current_media_id = 0,
              !.current_url = "None", !.is_playing = FALSE, !.current_frame = 0]

\* A play() that leaves the shared ended flag as the earlier worker left it
StartedPlayerKeepsEnded(e, p, n, id, url) ==
    [p EXCEPT !.frame_receiver = n, !.command_sender = n, !.decoder_thread = n,
              !.current_media_id = id, !.current_url = url, !.is_playing = TRUE,
              !.shared_state = IF Kind(e) = "MoviePlayer" THEN n ELSE @]

\* The assignments of play() after stop(): thread n with its channels is the current one
StartedPlayer(e, p, n, id, url) ==
    [p EXCEPT !.frame_receiver = n, !.command_sender = n, !.decoder_thread = n,
              !.current_media_id = id, !.current_url = url, !.is_playing = TRUE,
              !.is_ended = IF Kind(e) = "VideoPlayer" THEN FALSE ELSE @,
              !.shared_state = IF Kind(e) = "MoviePlayer" THEN n ELSE @]

\* self.shared_state = shared: the facade lets go of the SharedState of the earlier plays
Released(ws) == [j \in DOMAIN ws |-> [ws[j] EXCEPT !.position = 0, !.is_ended = FALSE]]

\* stop() from the join on, followed by the rest of play() when play() called it
Finish(e, op, id, url, p1, ws1) ==
    LET ws2 == DropReceiver(ws1, p1.frame_receiver)
        p2  == StoppedPlayer(p1)
        n   == Len(ws2) + 1
    IN  /\ call' = [call EXCEPT ![e] = NoCall]
        /\ delivered' = [delivered EXCEPT ![e] = <<>>]
        /\ ret' = [ret EXCEPT ![e] = 0]
        /\ IF op = "play"
           THEN /\ player' = [player EXCEPT ![e] = StartedPlayer(e, p2, n, id, url)]
                /\ worker' = [worker EXCEPT ![e] = Append(Released(ws2), NewWorker(url))]
           ELSE /\ player' = [player EXCEPT ![e] = p2]
                /\ worker' = [worker EXCEPT ![e] = ws2]

\* A stop() that lets go of the frame receiver before it joins the thread
BeginStopDropsFirst(e, op, id, url) ==
    LET p   == player[e]
        h   == p.decoder_thread
        ws1 == DropReceiver(SendCmd(worker[e], p.command_sender, Cmd("Shutdown", 0)),
                            p.frame_receiver)
        p1  == [p EXCEPT !.command_sender = 0, !.decoder_thread = 0, !.frame_receiver = 0]
    IN  IF h # 0
        THEN /\ player' = [player EXCEPT ![e] = p1]
             /\ worker' = [worker EXCEPT ![e] = ws1]
             /\ call' = [call EXCEPT ![e] = [op |-> op, handle |-> h, id |-> id, url |-> url]]
             /\ UNCHANGED <<delivered, ret>>
        ELSE Finish(e, op, id, url, p1, ws1)

\* stop() up to the join: Shutdown is sent and the thread handle taken
BeginStop(e, op, id, url) ==
    LET p   == player[e]
        h   == p.decoder_thread
        ws1 == SendCmd(worker[e], p.command_sender, Cmd("Shutdown", 0))
        p1  == [p EXCEPT !.command_sender = 0, !.decoder_thread = 0]
    IN  IF h # 0
        THEN /\ player' = [player EXCEPT ![e] = p1]
             /\ worker' = [worker EXCEPT ![e] = ws1]
             /\ call' = [call EXCEPT ![e] = [op |-> op, handle |-> h, id |-> id, url |-> url]]
             /\ UNCHANGED <<delivered, ret>>
        ELSE Finish(e, op, id, url, p1, ws1)

Play(e) ==
    /\ Idle(e)
    /\ Len(worker[e]) < lim.plays
    /\ \E m \in lim.catalog : BeginStop(e, "play", m[1], m[2])
    /\ UNCHANGED <<lim, sideVars>>

Stop(e) ==
    /\ Idle(e)
    /\ BeginStop(e, "stop", 0, "None")
    /\ UNCHANGED <<lim, sideVars>>

\* The join inside a pending stop() or play() returns and the call completes
Join(e) ==
    /\ call[e].op # "none"
    /\ JoinDone(worker[e][call[e].handle])
    /\ Finish(e, call[e].op, call[e].id, call[e].url, player[e], worker[e])
    /\ UNCHANGED <<lim, sideVars>>

Replay(e) ==
    /\ Idle(e)
    /\ Len(worker[e]) < lim.plays
    /\ player[e].current_media_id # 0
    /\ player[e].current_url # "None"
    /\ BeginStop(e, "play", player[e].current_media_id, player[e].current_url)
    /\ UNCHANGED <<lim, sideVars>>

\* pause() and resume(): the command goes out if there is a sender, the flag is set anyway
SetPlaying(e, cmd, flag) ==
    /\ worker' = [worker EXCEPT ![e] = SendCmd(@, player[e].command_sender, Cmd(cmd, 0))]
    /\ player' = [player EXCEPT ![e].is_playing = flag]
    /\ UNCHANGED <<lim, call, delivered, ret, sideVars>>

Pause(e) == Idle(e) /\ Driven("transport") /\ CmdRoom(e) /\ SetPlaying(e, "Pause", FALSE)

Resume(e) == Idle(e) /\ Driven("transport") /\ CmdRoom(e) /\ SetPlaying(e, "Resume", TRUE)

TogglePlayPause(e) ==
    /\ Idle(e) /\ Driven("transport") /\ CmdRoom(e)
    /\ Kind(e) = "MoviePlayer"
    /\ IF player[e].is_playing THEN SetPlaying(e, "Pause", FALSE)
                               ELSE SetPlaying(e, "Resume", TRUE)

\* The gain a MoviePlayer sends to its worker
Gain(muted, volume) == IF muted THEN 0 ELSE volume

\* toggle_mute() on a mute flag that all players share
ToggleMuteShared(e) ==
    /\ Idle(e) /\ Driven("audio") /\ CmdRoom(e)
    /\ LET m == ~player[e].is_muted
           c == IF Kind(e) = "VideoPlayer" THEN Cmd("ToggleMute", 0)
                ELSE Cmd("SetVolume", Gain(m, player[e].volume))
       IN  /\ player' = [f \in Engines |-> [player[f] EXCEPT !.is_muted = m]]
           /\ worker' = [worker EXCEPT ![e] = SendCmd(@, player[e].command_sender, c)]
    /\ UNCHANGED <<lim, call, delivered, ret, sideVars>>


ToggleMute(e) ==
    /\ Idle(e) /\ Driven("audio") /\ CmdRoom(e)
    /\ LET m == ~player[e].is_muted
           c == IF Kind(e) = "VideoPlayer" THEN Cmd("ToggleMute", 0)
                ELSE Cmd("SetVolume", Gain(m, player[e].volume))
       IN  /\ player' = [player EXCEPT ![e].is_muted = m]
           /\ worker' = [worker EXCEPT ![e] = SendCmd(@, player[e].command_sender, c)]
    /\ UNCHANGED <<lim, call, delivered, ret, sideVars>>

SetVolume(e) ==
    /\ Idle(e) /\ Driven("audio") /\ CmdRoom(e)
    /\ Kind(e) = "MoviePlayer"
    /\ \E v \in Volumes :
         /\ player' = [player EXCEPT ![e].volume = v]
         /\ worker' = [worker EXCEPT ![e] = SendCmd(@, player[e].command_sender,
                                   Cmd("SetVolume", Gain(player[e].is_muted, v)))]
    /\ UNCHANGED <<lim, call, delivered, ret, sideVars>>

\* VideoPlayer::check_ended clears is_playing when the flag is set (MoviePlayer's only reads)
CheckEnded(e) ==
    /\ Idle(e)
    /\ Kind(e) = "VideoPlayer"
    /\ Ended(e)
    /\ player' = [player EXCEPT ![e].is_playing = FALSE]
    /\ UNCHANGED <<lim, call, worker, delivered, ret, sideVars>>

\* A frame pull that never falls back to the frame it holds
NoNewFrameNone(e, p) == 0

\* What a frame pull returns when the channel gives nothing: VideoPlayer::render_frame
\* falls back to the frame it holds, MoviePlayer::get_new_frame returns None
NoNewFrame(e, p) == IF Kind(e) = "VideoPlayer" THEN p.current_frame ELSE 0

\* VideoPlayer::render_frame / MoviePlayer::get_new_frame
PullFrame(e) ==
    /\ Idle(e)
    /\ LET p == player[e]
           r == p.frame_receiver
       IN  IF r = 0
           THEN /\ ret' = [ret EXCEPT ![e] = 0]
                /\ UNCHANGED <<player, worker, delivered>>
           ELSE IF worker[e][r].frameq # <<>>
           THEN LET f == TryRecv(worker[e][r].frameq)
                IN  /\ player' = [player EXCEPT ![e].current_frame = f]
                    /\ worker' = [worker EXCEPT ![e][r].frameq = AfterRecv(@)]
                    /\ delivered' = [delivered EXCEPT ![e] = Append(@, f)]
                    /\ ret' = [ret EXCEPT ![e] = f]
           ELSE /\ ret' = [ret EXCEPT ![e] = NoNewFrame(e, p)]
                /\ UNCHANGED <<player, worker, delivered>>
    /\ UNCHANGED <<lim, call, sideVars>>

-----------------------------------------------------------------------------
(* The decode worker: run_decoder / run_movie_decoder *)

Threads(e) == 1..Len(worker[e])

\* The thread returns: its locals, its sink and its end of the command channel are gone
Exited(w, why) ==
    [w EXCEPT !.pc = "done", !.exit = why, !.cmdq = <<>>, !.next = 1,
              !.is_paused = FALSE, !.sinkq = 0, !.sink_paused = FALSE, !.sink_vol = 100]

\* is_ended.store(true) followed by return
EndedExit(e, i, why) ==
    IF Kind(e) = "VideoPlayer"
    THEN /\ player' = [player EXCEPT ![e].is_ended = TRUE]
         /\ worker' = [worker EXCEPT ![e][i] = Exited(@, why)]
    ELSE /\ worker' = [worker EXCEPT ![e][i] = Exited([@ EXCEPT !.is_ended = TRUE], why)]
         /\ UNCHANGED player

\* A startup failure that returns without storing the ended flag
StartFailedSilently(e, i) ==
    /\ worker' = [worker EXCEPT ![e][i] = Exited(@, "startfail")]
    /\ UNCHANGED player

\* The None / Err arms of the two startup matches: the flag is stored, the thread returns
StartFailed(e, i) == EndedExit(e, i, "startfail")

\* Whether the worker got past create_audio_output() and format::input(url)
Started(audio, url) == audio /\ Opens(url)

\* create_audio_output() and ffmpeg_next::format::input(&url)
WorkerStart(e, i) ==
    /\ worker[e][i].pc = "audio_out"
    /\ \E audio \in BOOLEAN :
         IF Started(audio, worker[e][i].url)
         THEN /\ worker' = [worker EXCEPT ![e][i].pc = "read"]
              /\ UNCHANGED player
         ELSE StartFailed(e, i)
    /\ UNCHANGED <<lim, call, delivered, ret, sideVars>>

\* ictx.packets().next(): the next packet, or the end of the for loop
WorkerRead(e, i) ==
    /\ worker[e][i].pc = "read"
    /\ LET w == worker[e][i]
       IN  IF w.next > Len(Container(w.url))
           THEN worker' = [worker EXCEPT ![e][i].pc = "sink_wait"]
           ELSE worker' = [worker EXCEPT ![e][i].pc = "cmds", ![e][i].next = @ + 1]
    /\ UNCHANGED <<lim, player, call, delivered, ret, sideVars>>

\* A worker that notes the Shutdown and goes on with its loop
AppliedKeepsOn(e, w, c) ==
    IF c.c = "Shutdown" THEN [w EXCEPT !.exit = "shutdown"] ELSE w

\* The worker after it took command c from the channel
Applied(e, w, c) ==
    CASE c.c = "Shutdown"   -> Exited(w, "shutdown")
      [] c.c = "Pause"      -> [w EXCEPT !.is_paused = TRUE, !.sink_paused = TRUE]
      [] c.c = "Resume"     -> [w EXCEPT !.is_paused = FALSE, !.sink_paused = FALSE]
      [] c.c = "ToggleMute" -> [w EXCEPT !.sink_vol = IF player[e].is_muted THEN 0 ELSE 100]
      [] OTHER              -> [w EXCEPT !.sink_vol = c.v]

\* One round of `while let Ok(cmd) = command_receiver.try_recv()`
WorkerCmd(e, i) ==
    /\ worker[e][i].pc = "cmds"
    /\ worker[e][i].cmdq # <<>>
    /\ LET w == worker[e][i]
           c == Head(w.cmdq)
       IN  worker' = [worker EXCEPT ![e][i] = Applied(e, [w EXCEPT !.cmdq = Tail(@)], c)]
    /\ UNCHANGED <<lim, player, call, delivered, ret, sideVars>>

\* A paused worker that goes on decoding
PacketNeverSkipped(w) == FALSE

\* `if is_paused { sleep; continue; }`: the packet just read is not decoded
PacketSkipped(w) == w.is_paused

\* The position stored for a decoded video frame (MoviePlayer only)
Published(e, w, pts) == IF Kind(e) = "MoviePlayer" THEN pts ELSE w.position

\* `Duration::from_secs_f64(pts as f64 * f64::from(tb))` panics for a negative time
PacingPanics(pts) == pts < 0

\* The thread unwinds: its locals are dropped as on a return, no ended flag is stored
Panicked(w) == Exited(w, "panic")

\* A drain that gives up with commands still in the channel
DrainEndsEarly(w) == TRUE

\* `while let Ok(cmd) = command_receiver.try_recv()` ends on Err: the channel is empty
DrainEnds(w) == w.cmdq = <<>>

\* The command channel is empty: the packet read is skipped while paused, and otherwise
\* decoded (audio goes to the sink, a video frame is made ready to send)
WorkerPacket(e, i) ==
    /\ worker[e][i].pc = "cmds"
    /\ DrainEnds(worker[e][i])
    /\ LET w == worker[e][i]
           k == Container(w.url)[w.next - 1]
       IN  IF PacketSkipped(w)
           THEN worker' = [worker EXCEPT ![e][i].pc = "read"]
           ELSE CASE k.stream = "audio" ->
                       worker' = [worker EXCEPT ![e][i].pc = "read", ![e][i].sinkq = @ + 1]
                  [] k.stream = "video" ->
                       IF PacingPanics(k.pts)
                       THEN worker' = [worker EXCEPT ![e][i] =
                                Panicked([w EXCEPT !.position = Published(e, w, k.pts)])]
                       ELSE worker' = [worker EXCEPT ![e][i].pc = "send",
                                                ![e][i].position = Published(e, w, k.pts)]
                  [] OTHER ->
                       worker' = [worker EXCEPT ![e][i].pc = "read"]
    /\ UNCHANGED <<lim, player, call, delivered, ret, sideVars>>

\* The frame channel after send(f) returned Ok
Pushed(q, f) == Append(q, f)

\* frame_sender.send(frame): fails when the receiver is gone, waits while the channel is full
WorkerSend(e, i) ==
    /\ worker[e][i].pc = "send"
    /\ LET w == worker[e][i]
           f == Container(w.url)[w.next - 1].pts
       IN  IF ~w.rx
           THEN EndedExit(e, i, "sendfail")
           ELSE /\ CanSend(w)
                /\ worker' = [worker EXCEPT ![e][i].frameq = Pushed(@, f),
                                            ![e][i].sent = Append(@, f),
                                            ![e][i].pc = "read"]
                /\ UNCHANGED player
    /\ UNCHANGED <<lim, call, delivered, ret, sideVars>>

\* sink.sleep_until_end() returns once the sink has played what was appended to it
SinkDrained(w) == w.sinkq = 0

\* sink.sleep_until_end(); is_ended.store(true)
WorkerEnd(e, i) ==
    /\ worker[e][i].pc = "sink_wait"
    /\ SinkDrained(worker[e][i])
    /\ EndedExit(e, i, "eos")
    /\ UNCHANGED <<lim, call, delivered, ret, sideVars>>

\* The audio device plays one appended buffer of a sink that is not paused
SinkPlay(e, i) ==
    /\ Alive(worker[e][i])
    /\ worker[e][i].sinkq > 0
    /\ ~worker[e][i].sink_paused
    /\ worker' = [worker EXCEPT ![e][i].sinkq = @ - 1]
    /\ UNCHANGED <<lim, player, call, delivered, ret, sideVars>>

WorkerStep(e, i) ==
    \/ WorkerStart(e, i)
    \/ WorkerRead(e, i)
    \/ WorkerCmd(e, i)
    \/ WorkerPacket(e, i)
    \/ WorkerSend(e, i)
    \/ WorkerEnd(e, i)

-----------------------------------------------------------------------------
(* Specifications of the engines *)

SvcOff == [pc |-> "off"]

EngineInit(scope, plays, cmds, catalog, ops) ==
    /\ lim = [scope |-> scope, plays |-> plays, cmds |-> cmds, catalog |-> catalog,
              ops |-> ops]
    /\ player = [e \in Engines |-> NewPlayer]
    /\ call = [e \in Engines |-> NoCall]
    /\ worker = [e \in Engines |-> <<>>]
    /\ delivered = [e \in Engines |-> <<>>]
    /\ ret = [e \in Engines |-> 0]
    /\ svc = SvcOff
    /\ voe = SvcOff
    /\ pure = SvcOff
    /\ app = SvcOff

\* One engine is driven, with one medium and the calls of one family
Init ==
    \E e \in Engines : \E m \in Catalog : \E f \in Families :
        EngineInit({e}, MaxPlays, MaxCmds, {m}, {f})

\* Two engines are driven side by side
PairInit == \E f \in Families : EngineInit(Engines, PairPlays, PairCmds, PairCatalog, {f})

Next ==
    \/ \E e \in Engines : Play(e)
    \/ \E e \in Engines : Stop(e)
    \/ \E e \in Engines : Join(e)
    \/ \E e \in Engines : Replay(e)
    \/ \E e \in Engines : Pause(e)
    \/ \E e \in Engines : Resume(e)
    \/ \E e \in Engines : TogglePlayPause(e)
    \/ \E e \in Engines : ToggleMute(e)
    \/ \E e \in Engines : SetVolume(e)
    \/ \E e \in Engines : CheckEnded(e)
    \/ \E e \in Engines : PullFrame(e)
    \/ \E e \in Engines : \E i \in Threads(e) : WorkerStart(e, i)
    \/ \E e \in Engines : \E i \in Threads(e) : WorkerRead(e, i)
    \/ \E e \in Engines : \E i \in Threads(e) : WorkerCmd(e, i)
    \/ \E e \in Engines : \E i \in Threads(e) : WorkerPacket(e, i)
    \/ \E e \in Engines : \E i \in Threads(e) : WorkerSend(e, i)
    \/ \E e \in Engines : \E i \in Threads(e) : WorkerEnd(e, i)
    \/ \E e \in Engines : \E i \in Threads(e) : SinkPlay(e, i)

Spec == Init /\ [][Next]_vars

\* The facade calls that reach the worker, and the worker
PairNext ==
    \/ \E e \in Engines : Play(e)
    \/ \E e \in Engines : Stop(e)
    \/ \E e \in Engines : Join(e)
    \/ \E e \in Engines : Pause(e)
    \/ \E e \in Engines : Resume(e)
    \/ \E e \in Engines : ToggleMute(e)
    \/ \E e \in Engines : \E i \in Threads(e) : WorkerStart(e, i)
    \/ \E e \in Engines : \E i \in Threads(e) : WorkerRead(e, i)
    \/ \E e \in Engines : \E i \in Threads(e) : WorkerCmd(e, i)
    \/ \E e \in Engines : \E i \in Threads(e) : WorkerPacket(e, i)
    \/ \E e \in Engines : \E i \in Threads(e) : WorkerSend(e, i)
    \/ \E e \in Engines : \E i \in Threads(e) : WorkerEnd(e, i)
    \/ \E e \in Engines : \E i \in Threads(e) : SinkPlay(e, i)

PairSpec == PairInit /\ [][PairNext]_vars

\* Two engines are driven side by side with a medium that makes the worker panic
PanicInit == EngineInit(Engines, MaxPlays, PairCmds, PanicCatalog, {})

\* play() and stop(), and the worker
PanicNext ==
    \/ \E e \in Engines : Play(e)
    \/ \E e \in Engines : Stop(e)
    \/ \E e \in Engines : Join(e)
    \/ \E e \in Engines : \E i \in Threads(e) : WorkerStart(e, i)
    \/ \E e \in Engines : \E i \in Threads(e) : WorkerRead(e, i)
    \/ \E e \in Engines : \E i \in Threads(e) : WorkerCmd(e, i)
    \/ \E e \in Engines : \E i \in Threads(e) : WorkerPacket(e, i)
    \/ \E e \in Engines : \E i \in Threads(e) : WorkerSend(e, i)
    \/ \E e \in Engines : \E i \in Threads(e) : WorkerEnd(e, i)
    \/ \E e \in Engines : \E i \in Threads(e) : SinkPlay(e, i)

PanicSpec == PanicInit /\ [][PanicNext]_vars

\* The scheduler runs every thread that can take a step, the audio device plays a sink
\* that is not paused, and a join returns once its thread has exited.  Nothing obliges
\* a caller to make a facade call.
Fair(e, i) ==
    /\ WF_vars(i \in Threads(e) /\ WorkerStep(e, i))
    /\ WF_vars(i \in Threads(e) /\ SinkPlay(e, i))

FairSpec ==
    /\ Spec
    /\ \A e \in Engines : WF_vars(Join(e))
    /\ \A e \in Engines : \A i \in 1..MaxPlays : Fair(e, i)

PanicFairSpec ==
    /\ PanicSpec
    /\ \A e \in Engines : WF_vars(Join(e))
    /\ \A e \in Engines : \A i \in 1..MaxPlays : Fair(e, i)

-----------------------------------------------------------------------------
(* Properties of the engines *)

AliveThreads(e) == {i \in Threads(e) : Alive(worker[e][i])}

\* C1: an engine never has two live decode threads; whenever the facade holds a thread
\* handle, the handle, the command sender and the frame receiver all belong to the
\* thread spawned last, and every thread spawned before it has exited with its frame
\* channel gone.
C1_OneWorker ==
    \A e \in Engines :
        /\ Cardinality(AliveThreads(e)) <= 1
        /\ LET p == player[e]
               n == Len(worker[e])
           IN  p.decoder_thread # 0 =>
                 /\ p.decoder_thread = n /\ p.command_sender = n /\ p.frame_receiver = n
                 /\ \A j \in 1..(n - 1) : ~Alive(worker[e][j]) /\ ~worker[e][j].rx

\* A second play() has returned while the first worker was still running: the first
\* worker took the Shutdown and the second one is alive
C1_Witness ==
    \E e \in Engines :
        /\ Len(worker[e]) = 2
        /\ worker[e][1].exit = "shutdown"
        /\ Alive(worker[e][2])
        /\ player[e].decoder_thread = 2
        /\ call[e].op = "none"

\* C2: every stop() (also the one inside play()) returns: a call that waits in join()
\* eventually completes.
C2_StopReturns ==
    \A e \in Engines : (call[e].op # "none") ~> (call[e].op = "none")

\* The worker whose frames the facade of e receives (0: none)
Chan(e) == player[e].frame_receiver

\* C3: a frame channel never holds more than FrameCap frames; a worker at send() goes on
\* exactly when the channel has room, so with FrameCap frames unconsumed it waits and
\* after a frame was taken it can send; no frame is dropped: what was sent is what was
\* handed out followed by what the channel holds.
C3_Backpressure ==
    \A e \in Engines : \A i \in Threads(e) :
        LET w == worker[e][i]
        IN  /\ Len(w.frameq) <= FrameCap
            /\ (w.pc = "send" /\ w.rx) =>
                   ((ENABLED WorkerSend(e, i)) <=> Len(w.frameq) < FrameCap)
            /\ Chan(e) = i => w.sent = delivered[e] \o w.frameq

\* The channel was full, the consumer took one frame, and the worker sent one more
C3_Witness ==
    \E e \in Engines :
        /\ Chan(e) # 0
        /\ Len(worker[e][Chan(e)].sent) = FrameCap + 1
        /\ Len(worker[e][Chan(e)].frameq) = FrameCap
        /\ Len(delivered[e]) = 1

IsPrefix(s, t) == Len(s) <= Len(t) /\ s = SubSeq(t, 1, Len(s))

\* C4: within one play() the frames handed out as new are a prefix of the frames the
\* worker sent, in the same order, and no frame is handed out twice.
C4_InOrder ==
    \A e \in Engines :
        Chan(e) # 0 =>
            /\ IsPrefix(delivered[e], worker[e][Chan(e)].sent)
            /\ \A a, b \in 1..Len(delivered[e]) : a < b => delivered[e][a] < delivered[e][b]

\* Three frames were handed out and the worker has sent more
C4_Witness ==
    \E e \in Engines :
        /\ Chan(e) # 0
        /\ Len(delivered[e]) >= 3
        /\ Len(worker[e][Chan(e)].sent) > Len(delivered[e])

FacadeCall(e) ==
    Play(e) \/ Stop(e) \/ Join(e) \/ Pause(e) \/ Resume(e) \/ ToggleMute(e)

\* C6: play(), stop(), pause(), resume() and toggle_mute() on one facade leave every
\* other facade, its worker threads and its channels and flags as they were.
C6_Independent ==
    [][\A e \in Engines : FacadeCall(e) =>
          \A f \in Engines \ {e} :
              /\ player'[f] = player[f]
              /\ worker'[f] = worker[f]
              /\ call'[f] = call[f]
              /\ delivered'[f] = delivered[f]
              /\ ret'[f] = ret[f]]_vars

\* Both engines have a live worker and one of them has a command pending
C6_Witness ==
    /\ \A e \in Engines : AliveThreads(e) # {}
    /\ \E e \in Engines : \E i \in Threads(e) : worker[e][i].cmdq # <<>>
    /\ \E e \in Engines : player[e].is_muted

\* A worker that cannot start: opening its URL fails, or its container has neither a
\* video nor an audio stream (a failed audio output shows only in how the thread exits)
NothingToPlay(w) ==
    \/ ~Opens(w.url)
    \/ \A k \in 1..Len(Container(w.url)) : Container(w.url)[k].stream \notin {"video", "audio"}

\* C7: a worker that cannot start (no audio output, URL cannot be opened, no video and
\* no audio stream) never sends a frame; once it has returned on its own the ended flag
\* of its engine is set; and a worker with nothing to play returns unless a command is
\* sent to it.
C7_StartFailure ==
    /\ [](\A e \in Engines : \A i \in Threads(e) :
            LET w == worker[e][i]
            IN  (w.exit = "startfail" \/ NothingToPlay(w)) =>
                  /\ w.sent = <<>> /\ w.frameq = <<>>
                  /\ (i = Len(worker[e]) /\ w.exit \in {"startfail", "eos"}) => Ended(e))
    /\ \A e \in Engines : \A i \in 1..MaxPlays :
          (i \in Threads(e) /\ NothingToPlay(worker[e][i]) /\ Alive(worker[e][i]))
              ~> (i \in Threads(e) /\ (~Alive(worker[e][i]) \/ worker[e][i].cmdq # <<>>))

\* play() has returned, its worker failed to start, and the facade that still holds
\* the thread handle and believes it is playing reads the ended flag as set
C7_Witness ==
    \E e \in Engines :
        LET n == Len(worker[e])
        IN  /\ n > 0
            /\ worker[e][n].exit = "startfail"
            /\ player[e].decoder_thread = n
            /\ player[e].is_playing
            /\ Ended(e)

\* C8: a worker that has read the last packet of its container and is not sent Shutdown
\* eventually stores the ended flag.
C8_EndOfStream ==
    \A e \in Engines : \A i \in 1..MaxPlays :
        (i \in Threads(e) /\ worker[e][i].pc = "sink_wait" /\ player[e].command_sender = i)
            ~> (player[e].command_sender # i \/ worker[e][i].exit = "eos")

\* C9: render_frame() returns the oldest frame of the channel when there is one and
\* otherwise the frame it returned last; once it has returned a frame it returns a frame
\* on every call until the next stop() or play().
C9_RenderFrame ==
    [][\A e \in Engines : (Kind(e) = "VideoPlayer" /\ PullFrame(e)) =>
          /\ ret'[e] = IF Chan(e) # 0 /\ worker[e][Chan(e)].frameq # <<>>
                       THEN Head(worker[e][Chan(e)].frameq)
                       ELSE ret[e]
          /\ ret[e] # 0 => ret'[e] # 0]_vars

\* render_frame() returned a frame, the worker has ended and the channel is empty:
\* every further call falls back to the frame held
C9_Witness ==
    /\ Chan("hero") # 0
    /\ ret["hero"] # 0
    /\ worker["hero"][Chan("hero")].frameq = <<>>
    /\ worker["hero"][Chan("hero")].exit = "eos"

-----------------------------------------------------------------------------
(* The resolution service: StreamingService::get_stream_url *)

\* The hosts a provider's page URL can point at
Pages == {"voe", "other"}

\* What a provider's get_stream_page_url(title) gives: Ok(page URL) or Err
ProviderKinds == [ok : {TRUE}, page : Pages] \cup {[ok |-> FALSE, page |-> "None"]}

\* A resolver: the pages its can_handle accepts and whether its resolve succeeds
ResolverKinds == [handles : SUBSET Pages, ok : BOOLEAN]

SeqsUpTo(S, n) == UNION {[1..k -> S] : k \in 0..n}

\* StreamError::NotFound("No providers available")
NoProviders == <<"No providers available">>

\* The error of provider a, the error and the stream URL of resolver b on a's page
ProviderErr(a) == <<"provider", a>>

ResolverErr(a, b) == <<"resolver", a, b>>

StreamUrl(a, b) == <<"stream", a, b>>

\* An error handling that keeps the first error it saw
RecordedFirst(last, e) == IF last = NoProviders THEN e ELSE last

\* `Err(e) => last_error = e`
Recorded(last, e) == e

\* A resolver that is asked whatever the page URL
CanHandleAny(r, page) == TRUE

\* resolver.can_handle(&page_url)
CanHandle(r, page) == page \in r.handles

\* get_stream_url is entered: last_error is the NotFound it starts with
SvcStart(ps, rs) ==
    [pc |-> "provider", providers |-> ps, resolvers |-> rs, pi |-> 1, ri |-> 1,
     page |-> "None", last_error |-> NoProviders, log |-> <<>>,
     result |-> [ok |-> FALSE, val |-> <<>>]]

\* `match provider.get_stream_page_url(title).await`
SvcProvider ==
    /\ svc.pc = "provider"
    /\ svc.pi <= Len(svc.providers)
    /\ LET a == svc.pi
           r == svc.providers[a]
           s == [svc EXCEPT !.log = Append(@, <<"provider", a>>)]
       IN  IF r.ok
           THEN svc' = [s EXCEPT !.page = r.page, !.ri = 1, !.pc = "resolver"]
           ELSE svc' = [s EXCEPT !.last_error = Recorded(@, ProviderErr(a)), !.pi = a + 1]
    /\ UNCHANGED <<engineVars, voe, pure, app>>

\* One resolver of the inner loop: asked only if it can handle the page; Ok returns
SvcResolver ==
    /\ svc.pc = "resolver"
    /\ svc.ri <= Len(svc.resolvers)
    /\ LET a == svc.pi
           b == svc.ri
           r == svc.resolvers[b]
           s == [svc EXCEPT !.log = Append(@, <<"resolve", a, b>>)]
       IN  IF ~CanHandle(r, svc.page)
           THEN svc' = [svc EXCEPT !.ri = b + 1]
           ELSE IF r.ok
           THEN svc' = [s EXCEPT !.result = [ok |-> TRUE, val |-> StreamUrl(a, b)],
                                 !.pc = "done"]
           ELSE svc' = [s EXCEPT !.last_error = Recorded(@, ResolverErr(a, b)), !.ri = b + 1]
    /\ UNCHANGED <<engineVars, voe, pure, app>>

\* The inner loop is over without an Ok: on to the next provider
SvcNextProvider ==
    /\ svc.pc = "resolver"
    /\ svc.ri > Len(svc.resolvers)
    /\ svc' = [svc EXCEPT !.pi = @ + 1, !.pc = "provider", !.page = "None"]
    /\ UNCHANGED <<engineVars, voe, pure, app>>

\* Err(last_error)
SvcFail ==
    /\ svc.pc = "provider"
    /\ svc.pi > Len(svc.providers)
    /\ svc' = [svc EXCEPT !.result = [ok |-> FALSE, val |-> svc.last_error], !.pc = "done"]
    /\ UNCHANGED <<engineVars, voe, pure, app>>

\* A service with any registered providers and resolvers is asked for a title
SvcInit ==
    /\ lim = [scope |-> {}, plays |-> 0, cmds |-> 0, catalog |-> {}, ops |-> {}]
    /\ player = [e \in Engines |-> NewPlayer]
    /\ call = [e \in Engines |-> NoCall]
    /\ worker = [e \in Engines |-> <<>>]
    /\ delivered = [e \in Engines |-> <<>>]
    /\ ret = [e \in Engines |-> 0]
    /\ \E ps \in SeqsUpTo(ProviderKinds, MaxProviders) :
         \E rs \in SeqsUpTo(ResolverKinds, MaxResolvers) : svc = SvcStart(ps, rs)
    /\ voe = SvcOff
    /\ pure = SvcOff
    /\ app = SvcOff

SvcNext == SvcProvider \/ SvcResolver \/ SvcNextProvider \/ SvcFail

SvcSpec == SvcInit /\ [][SvcNext]_vars

-----------------------------------------------------------------------------
(* Properties of the resolution service *)

\* Provider a returns a page that resolver b accepts and resolves
Succeeds(a, b) ==
    /\ svc.providers[a].ok
    /\ svc.providers[a].page \in svc.resolvers[b].handles
    /\ svc.resolvers[b].ok

Pairs == (1..Len(svc.providers)) \X (1..Len(svc.resolvers))

\* Call order: provider a before its resolvers, those in order, then provider a + 1
Before(x, y) == x[1] < y[1] \/ (x[1] = y[1] /\ x[2] < y[2])

\* A log entry as a point of the call order (a provider call comes before its resolvers)
At(c) == IF c[1] = "provider" THEN <<c[2], 0>> ELSE <<c[2], c[3]>>

\* C10: get_stream_url calls providers and, per page URL, the resolvers that can handle
\* it in registration order, returns the stream URL of the first (provider, resolver)
\* pair that succeeds, and makes no call after that success; until then it has called
\* every provider and every resolver that can handle the page of a provider that
\* returned one, and no resolver that cannot.
C10_FirstSuccess ==
    svc.pc = "done" =>
        LET found == {x \in Pairs : Succeeds(x[1], x[2])}
            calls == {svc.log[k] : k \in 1..Len(svc.log)}
        IN  /\ svc.result.ok <=> found # {}
            /\ \A j, k \in 1..Len(svc.log) : j < k => Before(At(svc.log[j]), At(svc.log[k]))
            /\ \A c \in calls : c[1] = "resolve" =>
                   /\ svc.providers[c[2]].ok
                   /\ svc.providers[c[2]].page \in svc.resolvers[c[3]].handles
            /\ svc.result.ok =>
                   LET x == CHOOSE x \in found : \A y \in found \ {x} : Before(x, y)
                   IN  /\ svc.result.val = StreamUrl(x[1], x[2])
                       /\ svc.log[Len(svc.log)] = <<"resolve", x[1], x[2]>>
                       /\ \A a \in 1..x[1] : <<"provider", a>> \in calls
                       /\ \A y \in Pairs :
                              (Before(y, x) /\ svc.providers[y[1]].ok
                                  /\ svc.providers[y[1]].page \in svc.resolvers[y[2]].handles)
                                  => <<"resolve", y[1], y[2]>> \in calls

\* The first provider fails, the second returns a page that the first resolver cannot
\* handle and the second resolves: the call returned the URL of the pair (2, 2)
C10_Witness ==
    /\ svc.pc = "done"
    /\ svc.result = [ok |-> TRUE, val |-> StreamUrl(2, 2)]
    /\ svc.log = <<<<"provider", 1>>, <<"provider", 2>>, <<"resolve", 2, 2>>>>

\* The error a logged call returned, if it failed
Failed(c) ==
    IF c[1] = "provider" THEN ~svc.providers[c[2]].ok ELSE ~svc.resolvers[c[3]].ok

ErrorOf(c) == IF c[1] = "provider" THEN ProviderErr(c[2]) ELSE ResolverErr(c[2], c[3])

\* C11: when get_stream_url returns Err, the error is the one of the last provider or
\* resolver call that failed, in the order the calls were made; if no call failed (no
\* provider, or no resolver that can handle any page) it is the NotFound it started with.
C11_LastError ==
    (svc.pc = "done" /\ ~svc.result.ok) =>
        LET failing == {k \in 1..Len(svc.log) : Failed(svc.log[k])}
        IN  IF failing = {}
            THEN svc.result.val = NoProviders
            ELSE LET k == CHOOSE k \in failing : \A j \in failing : j <= k
                 IN  svc.result.val = ErrorOf(svc.log[k])

\* The first provider fails, the second returns a page on which the only resolver that
\* is asked fails: the call returned that resolver's error, not the first provider's
C11_Witness ==
    /\ svc.pc = "done"
    /\ ~svc.result.ok
    /\ svc.log = <<<<"provider", 1>>, <<"provider", 2>>, <<"resolve", 2, 1>>>>
    /\ svc.result.val = ResolverErr(2, 1)

-----------------------------------------------------------------------------
(* VoeResolver::resolve: pages are fetched and redirects followed *)

\* Page URLs of the modelled web
MaxPages == 3

\* `max_redirects: 5`
MaxRedirects == 5

Urls == 1..MaxPages

\* A page: whether fetch_page succeeds and, if so, the page its script redirects to
\* (0: extract_redirect finds none) and whether extract_stream_url finds a stream URL
FailedPage == [fetch |-> FALSE, redirect |-> 0, stream |-> FALSE]

PageKinds == [fetch : {TRUE}, redirect : 0..MaxPages, stream : BOOLEAN] \cup {FailedPage}

\* StreamError::Network, StreamError::NotFound("Failed to extract stream URL"), Ok(url)
NetworkErr(u) == <<"Network", u>>

ExtractFailed == <<"NotFound", "Failed to extract stream URL">>

StreamOf(u) == <<"Ok", u>>

\* A loop that goes on whatever the count
LoopUnbounded(n) == TRUE

\* `for _ in 0..self.max_redirects`
LoopGoes(n) == n < MaxRedirects

\* A resolver that looks for a redirect only in a body without a stream URL
extract_redirect_unless_stream(page) == IF page.stream THEN 0 ELSE page.redirect

\* extract_redirect(&html): the target of the first redirect assignment, 0 for None
extract_redirect(page) == page.redirect

\* resolve(url) is entered; log is the pages fetched, scanned the pages whose body was
\* passed to extract_stream_url
VoeStart(web, url) ==
    [pc |-> "loop", web |-> web, current_url |-> url, n |-> 0, log |-> <<>>,
     scanned |-> <<>>, result |-> <<>>]

\* One iteration: fetch_page(current_url)?, then the redirect, else the stream URL, else break
VoeIterate ==
    /\ voe.pc = "loop"
    /\ LoopGoes(voe.n)
    /\ LET u == voe.current_url
           page == voe.web[u]
           v == [voe EXCEPT !.log = Append(@, u)]
       IN  IF ~page.fetch
           THEN voe' = [v EXCEPT !.pc = "done", !.result = NetworkErr(u)]
           ELSE IF extract_redirect(page) # 0
           THEN voe' = [v EXCEPT !.current_url = extract_redirect(page), !.n = @ + 1]
           ELSE IF page.stream
           THEN voe' = [v EXCEPT !.pc = "done", !.result = StreamOf(u),
                                 !.scanned = Append(@, u)]
           ELSE voe' = [v EXCEPT !.pc = "done", !.result = ExtractFailed,
                                 !.scanned = Append(@, u)]
    /\ UNCHANGED <<engineVars, svc, pure, app>>

\* The loop is over: Err(NotFound)
VoeGiveUp ==
    /\ voe.pc = "loop"
    /\ ~LoopGoes(voe.n)
    /\ voe' = [voe EXCEPT !.pc = "done", !.result = ExtractFailed]
    /\ UNCHANGED <<engineVars, svc, pure, app>>

\* The engines as constructed and never operated
EnginesIdle ==
    /\ lim = [scope |-> {}, plays |-> 0, cmds |-> 0, catalog |-> {}, ops |-> {}]
    /\ player = [e \in Engines |-> NewPlayer]
    /\ call = [e \in Engines |-> NoCall]
    /\ worker = [e \in Engines |-> <<>>]
    /\ delivered = [e \in Engines |-> <<>>]
    /\ ret = [e \in Engines |-> 0]

\* resolve is called with any URL of any web
VoeInit ==
    /\ EnginesIdle
    /\ svc = SvcOff
    /\ pure = SvcOff
    /\ app = SvcOff
    /\ \E web \in [Urls -> PageKinds] : \E url \in Urls : voe = VoeStart(web, url)

VoeNext == VoeIterate \/ VoeGiveUp

VoeSpec == VoeInit /\ [][VoeNext]_vars

\* The future of resolve is polled until it is ready
VoeFairSpec == VoeSpec /\ WF_vars(VoeNext)

\* C12: resolve returns for every web, cycles of redirects included, after at most 5
\* fetches; a failed fetch returns the Network error with no fetch after it; a stream
\* URL is returned only from a fetched page without redirect; in every other case,
\* the 5 fetches used up included, the result is NotFound.
C12_ResolveTerminates ==
    /\ <>(voe.pc = "done")
    /\ [](Len(voe.log) <= MaxRedirects)
    /\ [](voe.pc = "done" =>
            LET k == Len(voe.log)
                last == voe.web[voe.log[k]]
            IN  /\ k >= 1
                /\ \A j \in 1..(k - 1) : voe.web[voe.log[j]].fetch
                /\ IF ~last.fetch THEN voe.result = NetworkErr(voe.log[k])
                   ELSE IF last.redirect = 0 /\ last.stream
                        THEN voe.result = StreamOf(voe.log[k])
                        ELSE voe.result = ExtractFailed
                /\ (\A j \in 1..k : voe.web[voe.log[j]].fetch /\ ~voe.web[voe.log[j]].stream)
                       => voe.result = ExtractFailed)

\* Two pages redirect to each other: resolve gave up with NotFound after 5 fetches
C12_Witness ==
    /\ voe.pc = "done"
    /\ voe.log = <<1, 2, 1, 2, 1>>
    /\ voe.result = ExtractFailed

\* The k-th fetch got a body with a redirect to the page t
Redirected(k, t) ==
    /\ voe.pc # "off"
    /\ Len(voe.log) >= k
    /\ voe.web[voe.log[k]].fetch
    /\ voe.web[voe.log[k]].redirect = t

\* A body with a redirect is never passed to extract_stream_url, a body without one
\* always is, and every fetch after the first is of the redirect target of the body
\* fetched before it
ScansAndFetches ==
    /\ \A j \in 1..Len(voe.scanned) :
          voe.web[voe.scanned[j]].fetch /\ voe.web[voe.scanned[j]].redirect = 0
    /\ \A k \in 1..Len(voe.log) :
          (voe.pc = "done" /\ voe.web[voe.log[k]].fetch /\ voe.web[voe.log[k]].redirect = 0)
              => voe.scanned = <<voe.log[k]>>
    /\ \A k \in 1..(Len(voe.log) - 1) : Redirected(k, voe.log[k + 1])

\* C30 as stated: the above and, after every fetch of a body with a redirect, the
\* target is fetched next.
C30_RedirectAlwaysFetched ==
    /\ [](voe.pc # "off" => ScansAndFetches)
    /\ \A k \in 1..MaxRedirects : \A t \in Urls :
          (Redirected(k, t) /\ Len(voe.log) = k)
              ~> (Len(voe.log) > k /\ voe.log[k + 1] = t)

\* C30: the above, the target being fetched next after each of the first 4 fetches
\* (the fifth fetch is the last of a resolve, whatever its body).
C30_RedirectFollowed ==
    /\ [](voe.pc # "off" => ScansAndFetches)
    /\ \A k \in 1..(MaxRedirects - 1) : \A t \in Urls :
          (Redirected(k, t) /\ Len(voe.log) = k)
              ~> (Len(voe.log) > k /\ voe.log[k + 1] = t)

\* Page 1 holds a redirect to page 2 and a stream URL: page 2 was fetched and scanned,
\* page 1 was not scanned
C30_Witness ==
    /\ voe.pc = "done"
    /\ voe.log = <<1, 2>>
    /\ voe.web[1].redirect = 2
    /\ voe.web[1].stream
    /\ voe.scanned = <<2>>
    /\ voe.result = StreamOf(2)

-----------------------------------------------------------------------------
(* VoeResolver::extract_stream_url: the scan of a page for a stream URL *)

\* JSON script blocks and bare media URLs of a page
MaxBlocks == 2
MaxBare == 2

\* Hosts of the URLs of a page
Hosts == {"cdn.example", "BigBuckBunny.test"}

\* BAIT_PATTERNS
BAIT_PATTERNS == {"bigbuckbunny", "test-videos.co.uk", "sample-videos.com"}

\* The characters of the hosts and of the patterns
Text(str) ==
    CASE str = "cdn.example" -> <<"c", "d", "n", ".", "e", "x", "a", "m", "p", "l", "e">>
      [] str = "BigBuckBunny.test" -> <<"B", "i", "g", "B", "u", "c", "k", "B", "u", "n", "n", "y", ".", "t", "e", "s", "t">>
      [] str = "bigbuckbunny" -> <<"b", "i", "g", "b", "u", "c", "k", "b", "u", "n", "n", "y">>
      [] str = "test-videos.co.uk" -> <<"t", "e", "s", "t", "-", "v", "i", "d", "e", "o", "s", ".", "c", "o", ".", "u", "k">>
      [] OTHER -> <<"s", "a", "m", "p", "l", "e", "-", "v", "i", "d", "e", "o", "s", ".", "c", "o", "m">>

Uppers == <<"A", "B", "C", "D", "E", "F", "G", "H", "I", "J", "K", "L", "M", "N", "O", "P", "Q", "R", "S", "T", "U", "V", "W", "X", "Y", "Z">>

Lowers == <<"a", "b", "c", "d", "e", "f", "g", "h", "i", "j", "k", "l", "m", "n", "o", "p", "q", "r", "s", "t", "u", "v", "w", "x", "y", "z">>

\* str::to_lowercase on ASCII text
to_lowercase(s) ==
    [k \in 1..Len(s) |->
        IF \E j \in 1..Len(Uppers) : s[k] = Uppers[j]
        THEN Lowers[CHOOSE j \in 1..Len(Uppers) : s[k] = Uppers[j]]
        ELSE s[k]]

\* str::contains
Contains(s, p) == \E k \in 1..(Len(s) - Len(p) + 1) : SubSeq(s, k, k + Len(p) - 1) = p

\* The bait patterns a host contains, after to_lowercase()
Matches(host) ==
    LET lower == to_lowercase(Text(host))
    IN  {p \in BAIT_PATTERNS : Contains(lower, Text(p))}

\* A URL of the page: its host and where it stands in the page
Url(host, where, i) == <<host, where, i>>

\* A test that looks for the patterns in the URL as it is written
is_bait_as_written(url) == \E p \in BAIT_PATTERNS : Contains(Text(url[1]), Text(p))

\* `lower.contains(p)` for any of the patterns
is_bait(url) == Matches(url[1]) \cap BAIT_PATTERNS # {}

None == <<>>

Some(x) == <<x>>

\* A field of a decoded object: absent, not a string, or the URL on a host
FieldKinds == {"absent", "number"} \cup Hosts

\* A script block: deobfuscate gives None, a value that is no object, or an object
BlockKinds ==
    [kind : {"object"}, direct_access_url : FieldKinds, source : FieldKinds]
        \cup {[kind |-> k, direct_access_url |-> "absent", source |-> "absent"] :
                 k \in {"undecodable", "array"}}

\* obj.get("direct_access_url").or_else(|| obj.get("source")).and_then(|v| v.as_str())
BlockUrl(b, i) ==
    IF b.kind # "object" THEN None
    ELSE LET field == IF b.direct_access_url # "absent" THEN "direct_access_url"
                      ELSE "source"
         IN  IF b[field] \in Hosts THEN Some(Url(b[field], field, i)) ELSE None

\* A scan that returns the URL of the first block that has one
AcceptedAny(o) == o # None

\* `if let Some(ref u) = url { if !Self::is_bait(u) { return url; } }`
Accepted(o) == o # None /\ ~is_bait(o[1])

\* `fallback_re.captures(html).map(..).filter(|u| !is_bait(u))`: the first bare URL
Fallback(bare) ==
    IF bare = <<>> THEN None
    ELSE LET u == Url(bare[1], "bare", 1)
         IN  IF is_bait(u) THEN None ELSE Some(u)

RECURSIVE ScanBlocks(_, _)
\* `for caps in json_re.captures_iter(html)` from block i on, then the fallback
ScanBlocks(html, i) ==
    IF i > Len(html.blocks) THEN Fallback(html.bare)
    ELSE IF Accepted(BlockUrl(html.blocks[i], i)) THEN BlockUrl(html.blocks[i], i)
    ELSE ScanBlocks(html, i + 1)

extract_stream_url(html) == ScanBlocks(html, 1)

Htmls == [blocks : SeqsUpTo(BlockKinds, MaxBlocks), bare : SeqsUpTo(Hosts, MaxBare)]

\* A function is called with an argument
Called(f, arg) == [pc |-> "call", f |-> f, arg |-> arg, out |-> None]

\* The call returns
Returned(out) == [pure EXCEPT !.pc = "done", !.out = out]

\* Every state but the function call
PureInit ==
    /\ EnginesIdle
    /\ svc = SvcOff
    /\ voe = SvcOff
    /\ app = SvcOff

ExtractInit == PureInit /\ \E html \in Htmls : pure = Called("extract_stream_url", html)

ExtractCall ==
    /\ pure.pc = "call"
    /\ pure.f = "extract_stream_url"
    /\ pure' = Returned(extract_stream_url(pure.arg))
    /\ UNCHANGED <<engineVars, svc, voe, app>>

ExtractSpec == ExtractInit /\ [][ExtractCall]_vars

\* The non-bait URLs of the blocks and of the body, in page order
GoodBlocks(html) == {i \in 1..Len(html.blocks) : Accepted(BlockUrl(html.blocks[i], i))}

GoodBare(html) == {j \in 1..Len(html.bare) : ~is_bait(Url(html.bare[j], "bare", j))}

\* C13 (blocks): extract_stream_url returns the URL of the first JSON block that
\* yields a non-bait URL, whatever bait or undecodable blocks stand before it.
C13_BlocksScanned ==
    pure.pc = "done" =>
        LET html == pure.arg
            good == GoodBlocks(html)
        IN  good # {} =>
                LET i == CHOOSE i \in good : \A k \in good : i <= k
                IN  pure.out = BlockUrl(html.blocks[i], i)

\* C13: as above and, when no JSON block yields a non-bait URL, the bare URLs of the
\* body are tried: the first of them that is not bait is returned, and nothing is
\* returned only if every one of them is bait.
C13_BaitSkipped ==
    /\ C13_BlocksScanned
    /\ pure.pc = "done" =>
           LET html == pure.arg
               bare == GoodBare(html)
           IN  GoodBlocks(html) = {} =>
                   IF bare = {} THEN pure.out = None
                   ELSE LET j == CHOOSE j \in bare : \A k \in bare : j <= k
                        IN  pure.out = Some(Url(html.bare[j], "bare", j))

\* Two characters are the same letter in either case, or the same character
SameLetter(a, b) ==
    a = b \/ \E j \in 1..Len(Uppers) : {a, b} = {Uppers[j], Lowers[j]}

\* The text holds a bait pattern, the case of its letters ignored
HoldsBait(s) ==
    \E p \in BAIT_PATTERNS :
        \E k \in 1..(Len(s) - Len(Text(p)) + 1) :
            \A j \in 1..Len(Text(p)) : SameLetter(s[k + j - 1], Text(p)[j])

\* C29: a URL that extract_stream_url returns, from a JSON block or from the bare
\* URLs of the body, holds no bait pattern in any case of its letters.
C29_NoBaitReturned ==
    (pure.pc = "done" /\ pure.out # None) => ~HoldsBait(Text(pure.out[1][1]))

\* A page whose first block gives a bait URL and whose body has a clean bare URL: the
\* bare URL was returned
C29_Witness ==
    /\ pure.pc = "done"
    /\ Len(pure.arg.blocks) = 1
    /\ pure.arg.blocks[1].direct_access_url = "BigBuckBunny.test"
    /\ pure.out = Some(Url("cdn.example", "bare", 1))

-----------------------------------------------------------------------------
(* VoeResolver::resolve_redirect_url: strings are sequences of characters *)

\* The texts the base URLs and the redirect targets are made of
SchemeSep == <<":", "/", "/">>

HttpsColon == <<"h", "t", "t", "p", "s", ":">>

Http == <<"h", "t", "t", "p">>

BaseSchemes == {<<"h", "t", "t", "p", "s">>, <<"h", "t", "t", "p">>, <<>>}

BaseHosts == {<<"a", ".", "c", "o", "m">>, <<"b", ".", "c", "o", "m">>}

BasePaths == {<<>>, <<"/">>, <<"/", "p", "/", "x">>}

RelativeY == <<"/", "y">>

Redirects ==
    {RelativeY, <<"/", "/", "b", ".", "c", "o", "m", "/", "z">>, <<"h", "t", "t", "p", "s", ":", "/", "/", "b", ".", "c", "o", "m", "/", "z">>,
     <<"h", "t", "t", "p", ":", "/", "/", "b", ".", "c", "o", "m", "/", "z">>, <<"y">>, <<"f", "t", "p", ":", "/", "/", "b", ".", "c", "o", "m", "/", "z">>,
     <<"h", "t", "t", "p", "d", "o", "c", "s", "/", "y">>, <<".", ".", "/", "y">>}

\* The base URL as written: scheme://host/path, or host/path when it has no scheme
BaseUrl(scheme, host, path) ==
    IF scheme = <<>> THEN host \o path ELSE scheme \o SchemeSep \o host \o path

\* str::starts_with
StartsWith(s, p) == Len(s) >= Len(p) /\ SubSeq(s, 1, Len(p)) = p

\* str::find: the first position (from 1) where p stands in s, 0 for None
Find(s, p) ==
    LET at == {k \in 1..(Len(s) - Len(p) + 1) : SubSeq(s, k, k + Len(p) - 1) = p}
    IN  IF at = {} THEN 0 ELSE CHOOSE k \in at : \A j \in at : k <= j

\* A host that runs to the end of the base URL
HostEndWhole(rest) == Len(rest) + 1

\* `rest.find('/').unwrap_or(rest.len())`, as a position from 1
HostEnd(rest) == IF Find(rest, <<"/">>) = 0 THEN Len(rest) + 1 ELSE Find(rest, <<"/">>)

resolve_redirect_url(base_url, r) ==
    IF StartsWith(r, <<"/", "/">>) THEN HttpsColon \o r
    ELSE IF StartsWith(r, Http) THEN r
    ELSE LET scheme_end == Find(base_url, SchemeSep)
         IN  IF scheme_end # 0
             THEN LET rest == SubSeq(base_url, scheme_end + 3, Len(base_url))
                      scheme == SubSeq(base_url, 1, scheme_end - 1)
                      host == SubSeq(rest, 1, HostEnd(rest) - 1)
                  IN  scheme \o SchemeSep \o host \o r
             ELSE r

RedirectInit ==
    /\ PureInit
    /\ \E scheme \in BaseSchemes : \E host \in BaseHosts : \E path \in BasePaths :
         \E r \in Redirects :
           pure = Called("resolve_redirect_url",
                         [scheme |-> scheme, host |-> host, path |-> path, redirect |-> r])

RedirectCall ==
    /\ pure.pc = "call"
    /\ pure.f = "resolve_redirect_url"
    /\ pure' = Returned(resolve_redirect_url(
                   BaseUrl(pure.arg.scheme, pure.arg.host, pure.arg.path), pure.arg.redirect))
    /\ UNCHANGED <<engineVars, svc, voe, app>>

RedirectSpec == RedirectInit /\ [][RedirectCall]_vars

\* r is an absolute URL: a scheme of letters, then ://
IsAbsolute(r) ==
    LET k == Find(r, SchemeSep)
    IN  k > 1 /\ \A j \in 1..(k - 1) : r[j] \notin {"/", ".", ":"}

-----------------------------------------------------------------------------
(* FilmpalastToProvider::normalize_title *)

\* Characters of the titles that are enumerated
MaxTitle == 4

UpperCase == {"A", "T", "M", "R"}

LowerCase == {"a", "b", "c", "d", "e", "h", "i", "l", "m", "o", "r", "t", "x"}

Digits == {"7"}

\* char::to_ascii_lowercase on the letters of the model
to_ascii_lowercase(c) ==
    CASE c = "A" -> "a" [] c = "T" -> "t" [] c = "M" -> "m" [] c = "R" -> "r" [] OTHER -> c

\* char::is_ascii_alphanumeric
is_ascii_alphanumeric(c) == c \in UpperCase \cup LowerCase \cup Digits

\* The title of the documented example and the characters of the other titles
TheMatrix == <<"T", "h", "e", " ", "M", "a", "t", "r", "i", "x", ":", " ", "R", "e", "l", "o", "a", "d", "e", "d", "!", "!">>

TitleChars == {"A", "b", "7", "-", " ", "!"}

Titles == SeqsUpTo(TitleChars, MaxTitle) \cup {TheMatrix}

\* `.map(|c| if c.is_ascii_alphanumeric() { c.to_ascii_lowercase() } else { '-' })`
Mapped(title) ==
    [k \in 1..Len(title) |->
        IF is_ascii_alphanumeric(title[k]) THEN to_ascii_lowercase(title[k]) ELSE "-"]

\* A loop that pushes every hyphen
DashAlwaysPushed(prev_dash) == TRUE

\* `if !prev_dash { result.push(c); .. }`
DashPushed(prev_dash) == ~prev_dash

RECURSIVE Collapsed(_, _, _, _)
\* `for c in normalized.chars()` from character k on
Collapsed(normalized, k, prev_dash, result) ==
    IF k > Len(normalized) THEN result
    ELSE LET c == normalized[k]
         IN  IF c = "-"
             THEN IF DashPushed(prev_dash)
                  THEN Collapsed(normalized, k + 1, TRUE, Append(result, c))
                  ELSE Collapsed(normalized, k + 1, prev_dash, result)
             ELSE Collapsed(normalized, k + 1, FALSE, Append(result, c))

RECURSIVE trim_matches(_, _)
\* str::trim_matches
trim_matches(s, c) ==
    IF s = <<>> THEN s
    ELSE IF Head(s) = c THEN trim_matches(Tail(s), c)
    ELSE IF s[Len(s)] = c THEN trim_matches(SubSeq(s, 1, Len(s) - 1), c)
    ELSE s

normalize_title(title) == trim_matches(Collapsed(Mapped(title), 1, TRUE, <<>>), "-")

TitleInit == PureInit /\ \E title \in Titles : pure = Called("normalize_title", title)

TitleCall ==
    /\ pure.pc = "call"
    /\ pure.f = "normalize_title"
    /\ pure' = Returned(normalize_title(pure.arg))
    /\ UNCHANGED <<engineVars, svc, voe, app>>

TitleSpec == TitleInit /\ [][TitleCall]_vars

\* The positions of s whose character is (is not) a hyphen of the slug
Alnums(s) == {k \in 1..Len(s) : s[k] # "-"}

\* The n-th smallest element of a set of positions
Nth(S, n) == CHOOSE k \in S : Cardinality({j \in S : j <= k}) = n

\* C15: the slug holds only lowercase ASCII letters, digits and hyphens, has no hyphen
\* at either end and no two adjacent hyphens; its letters and digits are those of the
\* title in order, lowercased; two of them that follow each other are separated by
\* exactly one hyphen when characters that are no ASCII letter or digit stand between
\* them in the title, and by nothing otherwise; the documented example gives
\* "the-matrix-reloaded".
C15_Slug ==
    pure.pc = "done" =>
        LET title == pure.arg
            slug == pure.out
            src == {k \in 1..Len(title) : is_ascii_alphanumeric(title[k])}
            dst == Alnums(slug)
        IN  /\ \A k \in 1..Len(slug) : slug[k] \in LowerCase \cup Digits \cup {"-"}
            /\ slug # <<>> => slug[1] # "-" /\ slug[Len(slug)] # "-"
            /\ \A k \in 1..(Len(slug) - 1) : ~(slug[k] = "-" /\ slug[k + 1] = "-")
            /\ Cardinality(dst) = Cardinality(src)
            /\ \A n \in 1..Cardinality(src) :
                   slug[Nth(dst, n)] = to_ascii_lowercase(title[Nth(src, n)])
            /\ \A n \in 1..(Cardinality(src) - 1) :
                   Nth(dst, n + 1) - Nth(dst, n) =
                       IF Nth(src, n + 1) - Nth(src, n) > 1 THEN 2 ELSE 1
            /\ title = TheMatrix => slug = <<"t", "h", "e", "-", "m", "a", "t", "r", "i", "x", "-", "r", "e", "l", "o", "a", "d", "e", "d">>

\* The documented example was slugged
C15_Witness ==
    /\ pure.pc = "done"
    /\ pure.arg = TheMatrix
    /\ pure.out = <<"t", "h", "e", "-", "m", "a", "t", "r", "i", "x", "-",
                    "r", "e", "l", "o", "a", "d", "e", "d">>

-----------------------------------------------------------------------------
(* VoeResolver::deobfuscate: texts are sequences of character codes, byte      *)
(* strings sequences of 0..255                                                *)

\* The character a code of the base64 alphabet stands for, and `=`
B64Char(v) ==
    IF v < 26 THEN 65 + v
    ELSE IF v < 52 THEN 97 + (v - 26)
    ELSE IF v < 62 THEN 48 + (v - 52)
    ELSE IF v = 62 THEN 43 ELSE 47

PadChar == 61

\* The value of a character of the base64 alphabet, -1 for any other character
B64Value(c) ==
    IF c >= 65 /\ c <= 90 THEN c - 65
    ELSE IF c >= 97 /\ c <= 122 THEN c - 97 + 26
    ELSE IF c >= 48 /\ c <= 57 THEN c - 48 + 52
    ELSE IF c = 43 THEN 62
    ELSE IF c = 47 THEN 63 ELSE 0 - 1

RECURSIVE B64Encode(_)
\* STANDARD.encode: three bytes give four characters, the rest is padded with `=`
B64Encode(bytes) ==
    IF bytes = <<>> THEN <<>>
    ELSE IF Len(bytes) = 1
    THEN <<B64Char(bytes[1] \div 4), B64Char((bytes[1] % 4) * 16), PadChar, PadChar>>
    ELSE IF Len(bytes) = 2
    THEN <<B64Char(bytes[1] \div 4),
           B64Char((bytes[1] % 4) * 16 + bytes[2] \div 16),
           B64Char((bytes[2] % 16) * 4), PadChar>>
    ELSE <<B64Char(bytes[1] \div 4),
           B64Char((bytes[1] % 4) * 16 + bytes[2] \div 16),
           B64Char((bytes[2] % 16) * 4 + bytes[3] \div 64),
           B64Char(bytes[3] % 64)>>
         \o B64Encode(SubSeq(bytes, 4, Len(bytes)))

\* The bytes of one group of four characters; <<-1>> when the group is invalid. Padding
\* is accepted in the last group only, with the unused bits zero
B64Group(g, last) ==
    LET v == [k \in 1..4 |-> B64Value(g[k])]
    IN  IF v[1] < 0 \/ v[2] < 0 THEN <<0 - 1>>
        ELSE IF g[3] = PadChar
        THEN IF last /\ g[4] = PadChar /\ v[2] % 16 = 0
             THEN <<v[1] * 4 + v[2] \div 16>> ELSE <<0 - 1>>
        ELSE IF v[3] < 0 THEN <<0 - 1>>
        ELSE IF g[4] = PadChar
        THEN IF last /\ v[3] % 4 = 0
             THEN <<v[1] * 4 + v[2] \div 16, (v[2] % 16) * 16 + v[3] \div 4>>
             ELSE <<0 - 1>>
        ELSE IF v[4] < 0 THEN <<0 - 1>>
        ELSE <<v[1] * 4 + v[2] \div 16, (v[2] % 16) * 16 + v[3] \div 4,
               (v[3] % 4) * 64 + v[4]>>

RECURSIVE B64Decode(_)
\* STANDARD.decode(..).ok(): Some(bytes), or None for a text that is no base64
B64Decode(text) ==
    IF text = <<>> THEN Some(<<>>)
    ELSE IF Len(text) < 4 THEN None
    ELSE LET g == B64Group(SubSeq(text, 1, 4), Len(text) = 4)
             rest == B64Decode(SubSeq(text, 5, Len(text)))
         IN  IF g = <<0 - 1>> \/ rest = None THEN None ELSE Some(g \o rest[1])

\* U+FFFD REPLACEMENT CHARACTER
Replacement == 65533

RECURSIVE from_utf8_lossy(_)
\* String::from_utf8_lossy for ASCII, two-byte sequences and bytes that start no
\* sequence: what is not valid UTF-8 becomes U+FFFD
from_utf8_lossy(bytes) ==
    IF bytes = <<>> THEN <<>>
    ELSE IF bytes[1] < 128 THEN <<bytes[1]>> \o from_utf8_lossy(Tail(bytes))
    ELSE IF /\ bytes[1] >= 194 /\ bytes[1] <= 223
            /\ Len(bytes) >= 2 /\ bytes[2] >= 128 /\ bytes[2] <= 191
    THEN <<(bytes[1] - 192) * 64 + (bytes[2] - 128)>>
             \o from_utf8_lossy(SubSeq(bytes, 3, Len(bytes)))
    ELSE <<Replacement>> \o from_utf8_lossy(Tail(bytes))

\* String::from_utf8(bytes).is_ok(), for the same byte strings
IsUtf8(bytes) ==
    LET text == from_utf8_lossy(bytes)
    IN  \A k \in 1..Len(text) : text[k] # Replacement

\* `.rev()`
Reversed(s) == [k \in 1..Len(s) |-> s[Len(s) + 1 - k]]

\* One character of rot13: letters are rotated by 13, the rest is kept
Rot13Char(code) ==
    IF code >= 65 /\ code <= 90 THEN ((code - 65 + 13) % 26) + 65
    ELSE IF code >= 97 /\ code <= 122 THEN ((code - 97 + 13) % 26) + 97
    ELSE code

rot13(text) == [k \in 1..Len(text) |-> Rot13Char(text[k])]

\* MARKERS, in the order of the constant: "@#", "^^", "~@", "%?", "*~", "!!", "#&"
MARKERS == <<<<64, 35>>, <<94, 94>>, <<126, 64>>, <<37, 63>>, <<42, 126>>, <<33, 33>>, <<35, 38>>>>

RECURSIVE Replace(_, _)
\* str::replace(m, ""): the occurrences of m, from the left, without overlap
Replace(text, m) ==
    IF Len(text) < Len(m) THEN text
    ELSE IF SubSeq(text, 1, Len(m)) = m THEN Replace(SubSeq(text, Len(m) + 1, Len(text)), m)
    ELSE <<Head(text)>> \o Replace(Tail(text), m)

RECURSIVE StripFrom(_, _)
\* `.fold(text.to_string(), |acc, m| acc.replace(m, ""))` from marker k on
StripFrom(text, k) ==
    IF k > Len(MARKERS) THEN text ELSE StripFrom(Replace(text, MARKERS[k]), k + 1)

strip_markers(text) == StripFrom(text, 1)

\* The surrogate code points, which are no char
IsChar(code) == code < 55296 \/ code > 57343

\* `filter_map`: a character whose code minus offset is not negative is replaced by the
\* character of that code, or dropped when there is none; any other is kept
shift_chars(text, offset) ==
    LET Shifted(c) == IF c - offset >= 0 THEN c - offset ELSE c
        Kept(c) == c - offset < 0 \/ IsChar(c - offset)
        kept == SelectSeq(text, Kept)
    IN  [k \in 1..Len(kept) |-> Shifted(kept[k])]

\* `c.is_ascii_alphanumeric() || *c == '+' || *c == '/' || *c == '='`
IsB64Text(c) == B64Value(c) >= 0 \/ c = PadChar

\* `padded.push_str(&"=".repeat(4 - padding))`
Padded(clean) ==
    IF Len(clean) % 4 = 0 THEN clean
    ELSE clean \o [k \in 1..(4 - (Len(clean) % 4)) |-> PadChar]

\* safe_b64_decode: None when the cleaned and padded text is no base64, else the
\* lossy text of the bytes
safe_b64_decode(encoded) ==
    LET bytes == B64Decode(Padded(SelectSeq(encoded, IsB64Text)))
    IN  IF bytes = None THEN None ELSE Some(from_utf8_lossy(bytes[1]))

\* The JSON texts of the model: {} , [1] , "é" with its two-byte character
JsonObject == <<123, 125>>

JsonArray == <<91, 49, 93>>

JsonString == <<34, 233, 34>>

Payloads == {JsonObject, JsonArray, JsonString}

\* serde_json::from_str::<Value>(text).ok(), for the texts of the model: the value of
\* {} , of [1] and of a string of one character, None for any other text
JsonParse(text) ==
    IF text = JsonObject THEN Some([object |-> <<>>])
    ELSE IF text = JsonArray THEN Some([array |-> <<1>>])
    ELSE IF /\ Len(text) = 3 /\ text[1] = 34 /\ text[3] = 34
            /\ text[2] >= 32 /\ text[2] \notin {34, 92}
    THEN Some([string |-> <<text[2]>>])
    ELSE None

\* serde_json::from_str::<Vec<String>>(raw_json).ok(), for `[]` and `["text"]` with a
\* text that needs no escape: the array, None for any other text
ParseStringArray(raw) ==
    IF raw = <<91, 93>> THEN Some(<<>>)
    ELSE IF /\ Len(raw) >= 4
            /\ SubSeq(raw, 1, 2) = <<91, 34>>
            /\ SubSeq(raw, Len(raw) - 1, Len(raw)) = <<34, 93>>
            /\ \A k \in 3..(Len(raw) - 2) : raw[k] >= 32 /\ raw[k] \notin {34, 92}
    THEN Some(<<SubSeq(raw, 3, Len(raw) - 2)>>)
    ELSE None

\* The stages of deobfuscate after `array.first()?`
Step2(obfuscated) == strip_markers(rot13(obfuscated))

Step3(obfuscated) == safe_b64_decode(Step2(obfuscated))

\* A chain without the reversal
Step5Unreversed(step3) == shift_chars(step3, 3)

\* `step4.chars().rev().collect()` of `shift_chars(&step3, 3)`
Step5(step3) == Reversed(shift_chars(step3, 3))

deobfuscate(raw_json) ==
    LET array == ParseStringArray(raw_json)
    IN  IF array = None THEN None
        ELSE IF array[1] = <<>> THEN None
        ELSE LET step3 == Step3(array[1][1])
             IN  IF step3 = None THEN None
                 ELSE LET step6 == safe_b64_decode(Step5(step3[1]))
                      IN  IF step6 = None THEN None ELSE JsonParse(step6[1])

\* The forward chain: the UTF-8 bytes of a text
utf8_bytes(text) ==
    LET Bytes(c) == IF c < 128 THEN <<c>> ELSE <<192 + (c \div 64), 128 + (c % 64)>>
        F[k \in 0..Len(text)] == IF k = 0 THEN <<>> ELSE F[k - 1] \o Bytes(text[k])
    IN  F[Len(text)]

\* base64, reversal, every character shifted by +3, base64
Encoded(payload) ==
    LET e2 == Reversed(B64Encode(utf8_bytes(payload)))
        e3 == [k \in 1..Len(e2) |-> e2[k] + 3]
    IN  B64Encode(utf8_bytes(e3))

\* Markers inserted one after the other, each at any position of the text so far
MaxMarkers == 2

Inserted(text, m, at) == SubSeq(text, 1, at) \o MARKERS[m] \o SubSeq(text, at + 1, Len(text))

\* rot13 of the marked text, in a one-element array: ["..."]
Wrapped(text) == <<91, 34>> \o rot13(text) \o <<34, 93>>

\* A payload is encoded; no marker is inserted yet
CodecInit ==
    /\ PureInit
    /\ \E payload \in Payloads :
         pure = [pc |-> "encode", f |-> "deobfuscate", out |-> None,
                 arg |-> [payload |-> payload, marked |-> Encoded(payload), markers |-> 0]]

\* One more marker is inserted, any of them at any position of the text so far
CodecInsert ==
    /\ pure.pc = "encode"
    /\ pure.arg.markers < MaxMarkers
    /\ \E m \in 1..Len(MARKERS) : \E at \in 0..Len(pure.arg.marked) :
         pure' = [pure EXCEPT !.arg.marked = Inserted(@, m, at), !.arg.markers = @ + 1]
    /\ UNCHANGED <<engineVars, svc, voe, app>>

\* deobfuscate is called with the wrapped text
CodecCall ==
    /\ pure.pc = "encode"
    /\ pure' = Returned(deobfuscate(Wrapped(pure.arg.marked)))
    /\ UNCHANGED <<engineVars, svc, voe, app>>

CodecNext == CodecInsert \/ CodecCall

CodecSpec == CodecInit /\ [][CodecNext]_vars

\* C16: for every JSON payload, the forward chain (base64, reversal, shift by +3,
\* base64, markers inserted at any positions, rot13) in a one-element array makes
\* deobfuscate return the JSON value of the payload.
C16_RoundTrip ==
    pure.pc = "done" => pure.out = JsonParse(pure.arg.payload) /\ pure.out # None

\* A payload with a two-byte character was decoded from a text in which one marker
\* was inserted into another
C16_Witness ==
    /\ pure.pc = "done"
    /\ pure.arg.payload = JsonString
    /\ pure.arg.marked = Inserted(Inserted(Encoded(JsonString), 1, 3), 2, 4)
    /\ pure.out = Some([string |-> <<233>>])

-----------------------------------------------------------------------------
(* deobfuscate on texts whose chain is broken at one stage *)

\* Byte strings that are encoded: JSON texts, a text that is no JSON, and texts with
\* a byte that is no UTF-8
BrokenJson == <<123>>

BadString == <<34, 255, 34>>

BadArray == <<91, 49, 255, 93>>

PayloadBytes == {utf8_bytes(p) : p \in Payloads} \cup {BrokenJson, BadString, BadArray}

\* What is done to a text or byte string of the forward chain: nothing, its last
\* element dropped, a `=` put in front, or (bytes only) the byte 255 inserted
Damages == {"none", "cut", "pad"}

ByteDamages == {"none", "byte"}

Damaged(text, how) ==
    IF how = "cut" THEN SubSeq(text, 1, Len(text) - 1)
    ELSE IF how = "pad" THEN <<PadChar>> \o text
    ELSE text

\* The byte 255 inserted after the first `at` bytes
BadByte(bytes, how, at) ==
    IF how = "byte" THEN SubSeq(bytes, 1, at) \o <<255>> \o SubSeq(bytes, at + 1, Len(bytes))
    ELSE bytes

MaxAt == 1

\* The forward chain on bytes, damaged at the stages named by d
EncodedBroken(bytes, d) ==
    LET e1 == Damaged(B64Encode(bytes), d.second)
        e2 == Reversed(e1)
        e3 == [k \in 1..Len(e2) |-> e2[k] + 3]
    IN  Damaged(B64Encode(BadByte(utf8_bytes(e3), d.bytes, d.at)), d.first)

BrokenInit ==
    /\ PureInit
    /\ \E bytes \in PayloadBytes :
         \E d \in [first : Damages, second : Damages, bytes : ByteDamages, at : 0..MaxAt] :
           /\ d.bytes = "none" => d.at = 0
           /\ pure = Called("deobfuscate",
                            [bytes |-> bytes, damage |-> d,
                             raw_json |-> Wrapped(EncodedBroken(bytes, d))])

BrokenCall ==
    /\ pure.pc = "call"
    /\ pure.f = "deobfuscate"
    /\ pure' = Returned(deobfuscate(pure.arg.raw_json))
    /\ UNCHANGED <<engineVars, svc, voe, app>>

BrokenSpec == BrokenInit /\ [][BrokenCall]_vars

\* The bytes a base64 stage decodes its text to, after the text was cleaned and padded
StageBytes(text) == B64Decode(Padded(SelectSeq(text, IsB64Text)))

\* C17: deobfuscate returns None whenever a stage fails: the first or the second
\* base64 text (as cleaned and padded) is no base64, a base64 stage decodes to bytes
\* that are no UTF-8, or the final text is no JSON.
C17_StageFailure ==
    pure.pc = "done" =>
        LET first == StageBytes(Step2(ParseStringArray(pure.arg.raw_json)[1][1]))
        IN  IF first = None THEN pure.out = None
            ELSE IF ~IsUtf8(first[1]) THEN pure.out = None
            ELSE LET second == StageBytes(Step5(from_utf8_lossy(first[1])))
                 IN  IF second = None THEN pure.out = None
                     ELSE IF ~IsUtf8(second[1]) THEN pure.out = None
                     ELSE JsonParse(from_utf8_lossy(second[1])) = None => pure.out = None

-----------------------------------------------------------------------------
(* The playback progress store of the full-screen player *)

\* Content ids and positions (in seconds) of the model
MaxId == 2
MaxPos == 7

\* `if pos > 5.0`
MinProgress == 5

MediaIds == 1..MaxId

\* A threshold that lets the position 5 through
WorthSavingFrom(pos) == pos >= MinProgress

\* `if pos > 5.0`
WorthSaving(pos) == pos > MinProgress

\* PlaybackProgressStore::get: the entry of the id, 0 for None
StoreGet(progress, media_id) == progress[media_id]

\* PlaybackProgressStore::set: `self.progress.insert(media_id, position)`; the write of
\* the file that follows changes nothing of the map
StoreSet(progress, media_id, position) == [progress EXCEPT ![media_id] = position]

\* The store as loaded, the full-screen player as constructed, no lock held
StoreInit ==
    /\ EnginesIdle
    /\ svc = SvcOff
    /\ voe = SvcOff
    /\ pure = SvcOff
    /\ \E loaded \in [MediaIds -> {0, MaxPos}] :
         app = [pc |-> "store", progress |-> loaded, current_media_id |-> 0,
                position |-> 0, player_lock |-> "free", store_lock |-> "free",
                task |-> 0, last |-> [op |-> "new", id |-> 0, pos |-> 0, got |-> 0]]

\* A call of a method of the player needs the lock of the player
PlayerFree == app.pc = "store" /\ app.player_lock = "free"

Did(op, id, pos, got) == [op |-> op, id |-> id, pos |-> pos, got |-> got]

\* MoviePlayer::play: the id is set and the position is that of a fresh SharedState
StorePlay ==
    /\ PlayerFree
    /\ \E id \in MediaIds :
         app' = [app EXCEPT !.current_media_id = id, !.position = 0,
                            !.last = Did("play", id, 0, 0)]
    /\ UNCHANGED <<engineVars, svc, voe, pure>>

\* MoviePlayer::stop: `self.current_media_id = None`; the position stays
StoreStop ==
    /\ PlayerFree
    /\ app.current_media_id # 0
    /\ app' = [app EXCEPT !.current_media_id = 0, !.last = Did("stop", 0, 0, 0)]
    /\ UNCHANGED <<engineVars, svc, voe, pure>>

\* The decode worker publishes the position of a frame
StorePosition ==
    /\ app.pc = "store"
    /\ app.current_media_id # 0
    /\ \E pos \in 1..MaxPos :
         app' = [app EXCEPT !.position = pos,
                            !.last = Did("position", app.current_media_id, pos, 0)]
    /\ UNCHANGED <<engineVars, svc, voe, pure>>

\* MoviePlayer::save_progress_sync
StoreSave ==
    /\ PlayerFree
    /\ LET id == app.current_media_id
           pos == app.position
           did == Did("save", id, pos, 0)
       IN  IF id # 0 /\ WorthSaving(pos) /\ app.store_lock = "free"
           THEN app' = [app EXCEPT !.progress = StoreSet(@, id, pos), !.last = did]
           ELSE app' = [app EXCEPT !.last = did]
    /\ UNCHANGED <<engineVars, svc, voe, pure>>

\* MoviePlayer::get_stored_position: None (0) also when the lock is taken
StoreLoad ==
    /\ PlayerFree
    /\ \E id \in MediaIds :
         LET got == IF app.store_lock = "free" THEN StoreGet(app.progress, id) ELSE 0
         IN  app' = [app EXCEPT !.last = Did("get", id, 0, got)]
    /\ UNCHANGED <<engineVars, svc, voe, pure>>

\* The task of handle_movie_stream_resolved: `player.lock().await`, then play
TaskPlay ==
    /\ PlayerFree
    /\ app.task = 0
    /\ \E id \in MediaIds :
         app' = [app EXCEPT !.player_lock = "task", !.task = id, !.current_media_id = id,
                            !.position = 0, !.last = Did("play", id, 0, 0)]
    /\ UNCHANGED <<engineVars, svc, voe, pure>>

\* `progress_store.lock().await.get(media_id)`: the lock is held for this statement
TaskLockStore ==
    /\ app.pc = "store"
    /\ app.task # 0
    /\ app.store_lock = "free"
    /\ app' = [app EXCEPT !.store_lock = "task", !.last = Did("lock", app.task, 0, 0)]
    /\ UNCHANGED <<engineVars, svc, voe, pure>>

\* The stored position is read and the guard of the store dropped
TaskGet ==
    /\ app.pc = "store"
    /\ app.store_lock = "task"
    /\ app' = [app EXCEPT !.store_lock = "free",
                          !.last = Did("get", app.task, 0, StoreGet(app.progress, app.task))]
    /\ UNCHANGED <<engineVars, svc, voe, pure>>

\* The task ends (after the sleep and the seek, if a position was stored)
TaskEnd ==
    /\ app.pc = "store"
    /\ app.task # 0
    /\ app.store_lock = "free"
    /\ app.last.op = "get"
    /\ app' = [app EXCEPT !.player_lock = "free", !.task = 0,
                          !.last = Did("seek", app.task, 0, 0)]
    /\ UNCHANGED <<engineVars, svc, voe, pure>>

StoreNext ==
    \/ StorePlay \/ StoreStop \/ StorePosition \/ StoreSave \/ StoreLoad
    \/ TaskPlay \/ TaskLockStore \/ TaskGet \/ TaskEnd

StoreSpec == StoreInit /\ [][StoreNext]_vars

\* C18: a save at a position of 5 seconds or less leaves the store as it is; a save
\* at a position above 5 seconds sets the entry of the current id to the position and
\* leaves the other entries; nothing but a save changes the store, and a get returns
\* the entry of its id, so a later get returns what was saved.
C18_Progress ==
    [][LET id == app.current_media_id
           pos == app.position
       IN  /\ app'.last.op = "save" =>
                 IF pos <= MinProgress \/ id = 0 THEN app'.progress = app.progress
                 ELSE app'.progress = [app.progress EXCEPT ![id] = pos]
           /\ app'.last.op # "save" => app'.progress = app.progress
           /\ app'.last.op = "get" => app'.last.got = app.progress[app'.last.id]]_vars

\* A position of 6 seconds was saved for content 1, content 2 was played, and a get
\* for content 1 returned 6
C18_Witness ==
    /\ app.pc = "store"
    /\ app.last = Did("get", 1, 0, 6)
    /\ app.current_media_id = 2
    /\ app.progress[1] = 6

-----------------------------------------------------------------------------
(* The cache of resolved stream URLs (Movix::stream_url_cache) *)

\* URLs a resolution can return and resolutions in flight at a time
MaxUrl == 2
MaxPending == 2

\* The messages that carry the result of a resolution to its handler
Loaded == {"TrailerStreamUrlPreloaded", "TrailerStreamUrlLoaded", "DetailTrailerLoaded"}

\* Result<String, String>: Ok(url) or Err
Resolutions == [ok : {TRUE}, url : 1..MaxUrl] \cup {[ok |-> FALSE, url |-> 0]}

\* A handler that drops the entry of an id whose resolution failed
AfterErrEvicted(cache, media_id) == [cache EXCEPT ![media_id] = 0]

\* `let Ok(url) = result else { return Task::none(); }`
AfterErr(cache, media_id) == cache

\* `app.stream_url_cache.insert(media_id, url.clone())`
AfterOk(cache, media_id, url) == [cache EXCEPT ![media_id] = url]

Done(op, id, result) == [op |-> op, id |-> id, result |-> result]

NoResult == [ok |-> FALSE, url |-> 0]

\* `stream_url_cache: HashMap::new()`; nothing is resolved or played yet
CacheInit ==
    /\ EnginesIdle
    /\ svc = SvcOff
    /\ voe = SvcOff
    /\ pure = SvcOff
    /\ app = [pc |-> "cache", stream_url_cache |-> [id \in MediaIds |-> 0],
              pending |-> {}, playing |-> 0, hero_ended |-> FALSE,
              last |-> Done("new", 0, NoResult)]

\* A task that resolves the stream URL of an id is started; its result will come in
\* one of the messages
CacheResolve ==
    /\ app.pc = "cache"
    /\ Cardinality(app.pending) < MaxPending
    /\ \E msg \in Loaded : \E id \in MediaIds :
         /\ <<msg, id>> \notin app.pending
         /\ app' = [app EXCEPT !.pending = @ \cup {<<msg, id>>},
                               !.last = Done("resolve", id, NoResult)]
    /\ UNCHANGED <<engineVars, svc, voe, pure>>

\* The handler of the message: the URL of an Ok is inserted, an Err changes nothing
CacheLoaded ==
    /\ app.pc = "cache"
    /\ \E p \in app.pending : \E result \in Resolutions :
         LET id == p[2]
             cache == IF result.ok THEN AfterOk(app.stream_url_cache, id, result.url)
                      ELSE AfterErr(app.stream_url_cache, id)
         IN  app' = [app EXCEPT !.stream_url_cache = cache, !.pending = @ \ {p},
                                !.last = Done("loaded", id, result)]
    /\ UNCHANGED <<engineVars, svc, voe, pure>>

\* A handler finds the URL of an id in the cache and has an engine play it
CachePlay ==
    /\ app.pc = "cache"
    /\ \E id \in MediaIds :
         /\ app.stream_url_cache[id] # 0
         /\ app' = [app EXCEPT !.playing = id, !.hero_ended = FALSE,
                               !.last = Done("play", id, NoResult)]
    /\ UNCHANGED <<engineVars, svc, voe, pure>>

\* The frame tick finds check_ended() true, after the stream ended or because the
\* cached URL could not be opened: `app.hero_ended = true`
CacheEnded ==
    /\ app.pc = "cache"
    /\ app.playing # 0
    /\ app' = [app EXCEPT !.playing = 0, !.hero_ended = TRUE,
                          !.last = Done("ended", app.playing, NoResult)]
    /\ UNCHANGED <<engineVars, svc, voe, pure>>

CacheNext == CacheResolve \/ CacheLoaded \/ CachePlay \/ CacheEnded

CacheSpec == CacheInit /\ [][CacheNext]_vars

\* C19: the entry of an id changes only when a resolution for that id returned Ok, and
\* then to the URL returned; a failed resolution leaves the cache as it is; no step,
\* a playback that ended or failed included, removes an entry.
C19_CacheGrows ==
    [][\A id \in MediaIds :
         LET before == app.stream_url_cache[id]
             after == app'.stream_url_cache[id]
             last == app'.last
         IN  /\ after # before =>
                    last.op = "loaded" /\ last.id = id /\ last.result.ok
                        /\ after = last.result.url
             /\ (last.op = "loaded" /\ ~last.result.ok) =>
                    app'.stream_url_cache = app.stream_url_cache
             /\ before # 0 => after # 0]_vars

\* The URL of content 1 was cached and played, the engine reported ended, a later
\* resolution for content 1 failed, and the entry is still there
C19_Witness ==
    /\ app.pc = "cache"
    /\ app.hero_ended
    /\ app.last = Done("loaded", 1, NoResult)
    /\ app.stream_url_cache[1] = 1

-----------------------------------------------------------------------------
(* A decode worker that panics *)

\* Worker i of engine e panics in this step
PanicsNow(e, i) ==
    /\ i \in Threads(e)
    /\ worker[e][i].exit # "panic"
    /\ worker'[e][i].exit = "panic"

\* C20: the step in which a worker panics changes nothing of any other engine (its
\* facade, its workers and channels, its pending call), and a stop() or play() that
\* joins a panicked worker returns; play() then has spawned the next worker.
C20_PanicIsolated ==
    /\ [][\A e \in Engines : \A i \in 1..MaxPlays :
            PanicsNow(e, i) =>
                \A o \in Engines \ {e} :
                    /\ player'[o] = player[o] /\ worker'[o] = worker[o]
                    /\ call'[o] = call[o] /\ delivered'[o] = delivered[o]
                    /\ ret'[o] = ret[o]]_vars
    /\ \A e \in Engines :
         (call[e].op # "none" /\ worker[e][call[e].handle].exit = "panic")
             ~> (call[e].op = "none")
    /\ [][\A e \in Engines :
            (call[e].op = "play" /\ call'[e].op = "none") =>
                /\ Len(worker'[e]) = Len(worker[e]) + 1
                /\ player'[e].decoder_thread = Len(worker'[e])
                /\ player'[e].is_playing]_vars

\* The first worker of the hero engine panicked, the play() that followed returned
\* with a second worker, and the worker of the other engine is running
C20_Witness ==
    /\ Len(worker["hero"]) = 2
    /\ worker["hero"][1].exit = "panic"
    /\ call["hero"].op = "none"
    /\ player["hero"].decoder_thread = 2
    /\ Len(worker["movie"]) = 1
    /\ Alive(worker["movie"][1])

-----------------------------------------------------------------------------
(* The locks of the application and what a task does while it holds one *)

\* The tasks that take a lock: the task of handle_movie_stream_resolved, the task of
\* handle_movie_player_close, and two calls of TrailerManager::get_stream_url
LockTasks == {"resolved", "close", "trailer_a", "trailer_b"}

Trailers == {"trailer_a", "trailer_b"}

\* What a task may be blocked in
Blocking == {"file", "network", "join", "sleep"}

\* The task t is at pc and is blocked in what (or in nothing)
TaskAt(t, pc, what) == [app EXCEPT !.at[t] = pc, !.doing[t] = what]

\* No lock is held, the movie player may or may not have a worker, the store may or
\* may not hold a position for the content
LockInit ==
    /\ EnginesIdle
    /\ svc = SvcOff
    /\ voe = SvcOff
    /\ pure = SvcOff
    /\ \E thread \in BOOLEAN : \E stored \in BOOLEAN :
         app = [pc |-> "locks", player_lock |-> "free", store_lock |-> "free",
                readers |-> {}, writer |-> "free",
                decoder_thread |-> thread, stored |-> stored, cached |-> FALSE,
                at |-> [t \in LockTasks |-> "idle"],
                doing |-> [t \in LockTasks |-> "none"]]

\* `player.lock().await`
ResolvedLock ==
    /\ app.pc = "locks"
    /\ app.at["resolved"] = "idle"
    /\ app.player_lock = "free"
    /\ app' = [TaskAt("resolved", "play", "none") EXCEPT !.player_lock = "resolved"]
    /\ UNCHANGED <<engineVars, svc, voe, pure>>

\* `p.play(media_id, &url)`: stop() joins the worker there is, then a worker is spawned
ResolvedPlay ==
    /\ app.pc = "locks"
    /\ app.at["resolved"] = "play"
    /\ IF app.decoder_thread /\ app.doing["resolved"] = "none"
       THEN app' = TaskAt("resolved", "play", "join")
       ELSE app' = [TaskAt("resolved", "store", "none") EXCEPT !.decoder_thread = TRUE]
    /\ UNCHANGED <<engineVars, svc, voe, pure>>

\* `progress_store.lock().await.get(media_id)`: the guard is a temporary of the statement
ResolvedGet ==
    /\ app.pc = "locks"
    /\ app.at["resolved"] = "store"
    /\ app.store_lock = "free"
    /\ app' = [TaskAt("resolved", "got", "none") EXCEPT !.store_lock = "resolved"]
    /\ UNCHANGED <<engineVars, svc, voe, pure>>

\* The guard of the store is dropped; `if let Some(pos) = stored_pos` sleeps 500 ms
ResolvedSleep ==
    /\ app.pc = "locks"
    /\ app.at["resolved"] = "got"
    /\ app' = [TaskAt("resolved", "seek", IF app.stored THEN "sleep" ELSE "none")
                 EXCEPT !.store_lock = "free"]
    /\ UNCHANGED <<engineVars, svc, voe, pure>>

\* `p.seek(pos)` and the end of the task: the guard of the player is dropped
ResolvedEnd ==
    /\ app.pc = "locks"
    /\ app.at["resolved"] = "seek"
    /\ app' = [TaskAt("resolved", "idle", "none") EXCEPT !.player_lock = "free"]
    /\ UNCHANGED <<engineVars, svc, voe, pure>>

\* handle_movie_player_close: `player.lock().await`
CloseLock ==
    /\ app.pc = "locks"
    /\ app.at["close"] = "idle"
    /\ app.player_lock = "free"
    /\ app' = [TaskAt("close", "save", "none") EXCEPT !.player_lock = "close"]
    /\ UNCHANGED <<engineVars, svc, voe, pure>>

\* The progress is saved as save_progress_sync saves it: `try_lock()` of the store,
\* and with the guard `store.set(id, pos)`: the insert, then save() writes the file
CloseSave ==
    /\ app.pc = "locks"
    /\ app.at["close"] = "save"
    /\ IF app.decoder_thread /\ app.store_lock = "free"
       THEN app' = [TaskAt("close", "set", "file") EXCEPT !.store_lock = "close", !.stored = TRUE]
       ELSE app' = TaskAt("close", "stop", "none")
    /\ UNCHANGED <<engineVars, svc, voe, pure>>

\* The file is written and the guard of the store dropped
CloseSaved ==
    /\ app.pc = "locks"
    /\ app.at["close"] = "set"
    /\ app' = [TaskAt("close", "stop", "none") EXCEPT !.store_lock = "free"]
    /\ UNCHANGED <<engineVars, svc, voe, pure>>

\* `p.stop()`: `handle.join()` of the worker there is
CloseStop ==
    /\ app.pc = "locks"
    /\ app.at["close"] = "stop"
    /\ IF app.decoder_thread
       THEN app' = [TaskAt("close", "stop", "join") EXCEPT !.decoder_thread = FALSE]
       ELSE app' = [TaskAt("close", "idle", "none") EXCEPT !.player_lock = "free"]
    /\ UNCHANGED <<engineVars, svc, voe, pure>>

\* get_stream_url: `self.url_cache.read().await`
TrailerRead(t) ==
    /\ app.pc = "locks"
    /\ app.at[t] = "idle"
    /\ app.writer = "free"
    /\ app' = [TaskAt(t, "lookup", "none") EXCEPT !.readers = @ \cup {t}]
    /\ UNCHANGED <<engineVars, svc, voe, pure>>

\* The block of the read guard ends: a hit returns, a miss goes on to fetch_stream_url,
\* which runs yt-dlp
TrailerLookup(t) ==
    /\ app.pc = "locks"
    /\ app.at[t] = "lookup"
    /\ app' = [(IF app.cached THEN TaskAt(t, "idle", "none") ELSE TaskAt(t, "fetch", "network"))
                 EXCEPT !.readers = @ \ {t}]
    /\ UNCHANGED <<engineVars, svc, voe, pure>>

\* fetch_stream_url returns: `?` ends the call on an error
TrailerFetched(t) ==
    /\ app.pc = "locks"
    /\ app.at[t] = "fetch"
    /\ \E ok \in BOOLEAN :
         app' = IF ok THEN TaskAt(t, "write", "none") ELSE TaskAt(t, "idle", "none")
    /\ UNCHANGED <<engineVars, svc, voe, pure>>

\* `self.url_cache.write().await.insert(..)`: the write guard is a temporary
TrailerWrite(t) ==
    /\ app.pc = "locks"
    /\ app.at[t] = "write"
    /\ app.writer = "free"
    /\ app.readers = {}
    /\ app' = [TaskAt(t, "insert", "none") EXCEPT !.writer = t]
    /\ UNCHANGED <<engineVars, svc, voe, pure>>

\* The insert, and the write guard is dropped
TrailerInsert(t) ==
    /\ app.pc = "locks"
    /\ app.at[t] = "insert"
    /\ app' = [TaskAt(t, "idle", "none") EXCEPT !.writer = "free", !.cached = TRUE]
    /\ UNCHANGED <<engineVars, svc, voe, pure>>

LockNext ==
    \/ ResolvedLock \/ ResolvedPlay \/ ResolvedGet \/ ResolvedSleep \/ ResolvedEnd
    \/ CloseLock \/ CloseSave \/ CloseSaved \/ CloseStop
    \/ \E t \in Trailers : TrailerRead(t)
    \/ \E t \in Trailers : TrailerLookup(t)
    \/ \E t \in Trailers : TrailerFetched(t)
    \/ \E t \in Trailers : TrailerWrite(t)
    \/ \E t \in Trailers : TrailerInsert(t)

LockSpec == LockInit /\ [][LockNext]_vars

\* The task t holds a lock
Holds(t) ==
    \/ app.player_lock = t
    \/ app.store_lock = t
    \/ t \in app.readers
    \/ app.writer = t

\* C21: a task that holds the lock of a player, of the progress store or of the URL
\* cache is not in file or network I/O, not waiting for a worker to exit, not asleep.
C21_NoLockAcrossIO ==
    app.pc = "locks" => \A t \in LockTasks : Holds(t) => app.doing[t] \notin Blocking

\* The part that holds: no holder of the URL cache lock is blocked
C21_UrlCacheLock ==
    app.pc = "locks" =>
        \A t \in LockTasks : (t \in app.readers \/ app.writer = t) => app.doing[t] = "none"

-----------------------------------------------------------------------------
(* The progress store at construction (PlaybackProgressStore::new and load) *)

\* The longest damaged file of the model is one token longer than a full mapping
MaxExtra == 1

\* Seconds a file may hold for a content id
FilePositions == {3, MaxPos}

\* The tokens of a progress file: punctuation, a key per content id, a key that is no
\* content id (0), the numbers, and a value that is no number
KeyToken(id) == <<"key", id>>

NumToken(n) == <<"num", n>>

Punct(c) == <<c, 0>>

FileTokens ==
    {Punct(c) : c \in {"{", "}", ":", ",", "null"}}
        \cup {KeyToken(id) : id \in MediaIds \cup {0}}
        \cup {NumToken(n) : n \in FilePositions}

\* `progress: HashMap::new()`: no id has a position (0 stands for no entry)
EmptyProgress == [id \in MediaIds |-> 0]

\* An insert that drops every key but the first content id
HashInsertOne(m, k, v) == IF k = 1 THEN [m EXCEPT ![k] = v] ELSE m

\* HashMap::insert as serde fills the map: a later entry of a key replaces the earlier
HashInsert(m, k, v) == [m EXCEPT ![k] = v]

\* serde_json::from_str::<HashMap<MediaId, f64>>, from the entry that starts at token i:
\* key, colon, number, then a comma and the next entry or the closing brace at the end
RECURSIVE ParseEntries(_, _, _)
ParseEntries(content, i, m) ==
    IF i + 3 > Len(content) THEN None
    ELSE IF content[i] \notin {KeyToken(id) : id \in MediaIds} THEN None
    ELSE IF content[i + 1] # Punct(":") THEN None
    ELSE IF content[i + 2] \notin {NumToken(n) : n \in FilePositions} THEN None
    ELSE LET next == HashInsert(m, content[i][2], content[i + 2][2])
         IN  IF content[i + 3] = Punct("}")
             THEN IF i + 3 = Len(content) THEN Some(next) ELSE None
             ELSE IF content[i + 3] = Punct(",") THEN ParseEntries(content, i + 4, next)
             ELSE None

from_str(content) ==
    IF Len(content) < 2 \/ content[1] # Punct("{") THEN None
    ELSE IF content[2] = Punct("}") THEN (IF Len(content) = 2 THEN Some(EmptyProgress) ELSE None)
    ELSE ParseEntries(content, 2, EmptyProgress)

\* PlaybackProgressStore::load from the file at storage_path (None: no file is read)
load(progress, storage_path, file) ==
    IF ~storage_path THEN progress
    ELSE IF file = None THEN progress
    ELSE LET data == from_str(file[1])
         IN  IF data = None THEN progress ELSE data[1]

\* PlaybackProgressStore::new
new_store(storage_path, file) == load(EmptyProgress, storage_path, file)

\* serde_json::to_string of a mapping, its entries in the order of the ids in keys
RECURSIVE EntriesJson(_, _)
EntriesJson(m, keys) ==
    IF keys = <<>> THEN <<>>
    ELSE <<KeyToken(Head(keys)), Punct(":"), NumToken(m[Head(keys)])>>
             \o (IF Len(keys) > 1 THEN <<Punct(",")>> ELSE <<>>) \o EntriesJson(m, Tail(keys))

to_string(m, keys) == <<Punct("{")>> \o EntriesJson(m, keys) \o <<Punct("}")>>

\* The orders a HashMap may iterate its keys in
KeyOrders(m) ==
    LET ids == {id \in MediaIds : m[id] # 0}
    IN  {keys \in SeqsUpTo(ids, Cardinality(ids)) :
            Len(keys) = Cardinality(ids) /\ {keys[k] : k \in 1..Len(keys)} = ids}

\* The files a valid mapping is written as
ValidFiles == UNION {{to_string(m, keys) : keys \in KeyOrders(m)} :
                        m \in [MediaIds -> FilePositions \cup {0}]}

\* A file with one token replaced, one token inserted, or cut short
DamagedFiles ==
    UNION {{[f EXCEPT ![p] = t] : p \in 1..Len(f), t \in FileTokens}
               \cup {SubSeq(f, 1, p) \o s \o SubSeq(f, p + 1, Len(f)) :
                        p \in 0..Len(f), s \in SeqsUpTo(FileTokens, MaxExtra)}
               \cup {SubSeq(f, 1, p) : p \in 0..Len(f)} : f \in ValidFiles}

\* The store is constructed with HOME set or not and the file absent, valid or damaged
NewStoreInit ==
    /\ PureInit
    /\ \E storage_path \in BOOLEAN : \E file \in {None} \cup {Some(f) : f \in DamagedFiles} :
         pure = Called("PlaybackProgressStore::new",
                       [storage_path |-> storage_path,
                        file |-> IF storage_path THEN file ELSE None])

NewStoreCall ==
    /\ pure.pc = "call"
    /\ pure.f = "PlaybackProgressStore::new"
    /\ pure' = Returned(new_store(pure.arg.storage_path, pure.arg.file))
    /\ UNCHANGED <<engineVars, svc, voe, app>>

NewStoreSpec == NewStoreInit /\ [][NewStoreCall]_vars

\* The text is a JSON object of content ids and numbers: n entries of four tokens
Parses(content) ==
    \/ content = <<Punct("{"), Punct("}")>>
    \/ \E n \in 1..Len(content) :
         /\ Len(content) = 4 * n + 1
         /\ content[1] = Punct("{")
         /\ \A j \in 0..(n - 1) :
              /\ content[4 * j + 2] \in {KeyToken(id) : id \in MediaIds}
              /\ content[4 * j + 3] = Punct(":")
              /\ content[4 * j + 4] \in {NumToken(v) : v \in FilePositions}
              /\ content[4 * j + 5] = IF j = n - 1 THEN Punct("}") ELSE Punct(",")

\* C22: the constructed store is empty when the file is absent or does not parse, and
\* is the mapping m when the file is m as serialised in any key order.
C22_StoreLoaded ==
    pure.pc = "done" =>
        LET file == pure.arg.file
        IN  /\ file = None => pure.out = EmptyProgress
            /\ (file # None /\ ~Parses(file[1])) => pure.out = EmptyProgress
            /\ \A m \in [MediaIds -> FilePositions \cup {0}] : \A keys \in KeyOrders(m) :
                 file = Some(to_string(m, keys)) => pure.out = m

\* The file `{"2":7,"1":3}` was loaded as the mapping of 1 to 3 and of 2 to 7
C22_Witness ==
    /\ pure.pc = "done"
    /\ pure.arg.file = Some(to_string([id \in MediaIds |-> IF id = 1 THEN 3 ELSE MaxPos],
                                      <<2, 1>>))
    /\ pure.out = [id \in MediaIds |-> IF id = 1 THEN 3 ELSE MaxPos]

\* A damaged file gave the empty store
C22_WitnessCorrupt ==
    /\ pure.pc = "done"
    /\ pure.arg.file = Some(<<Punct("{"), KeyToken(1), Punct(":"), Punct("null"), Punct("}")>>)
    /\ pure.out = EmptyProgress

-----------------------------------------------------------------------------
(* The worker and its command channel *)

\* Worker i of engine e goes on from the drain to the packet it read
TakesPacket(e, i) ==
    /\ i \in Threads(e)
    /\ worker[e][i].pc = "cmds"
    /\ worker'[e][i].pc # "cmds"
    /\ worker'[e][i].exit # "shutdown"

C24_ShutdownStops ==
    [][\A e \in Engines : \A i \in 1..MaxPlays :
          i \in Threads(e) =>
              LET w == worker[e][i]
                  v == worker'[e][i]
              IN  /\ (w.exit # "shutdown" /\ v.exit = "shutdown") =>
                        /\ ~Alive(v)
                        /\ v.sent = w.sent
                        /\ v.position = w.position
                        /\ v.is_ended = w.is_ended
                        /\ player'[e].is_ended = player[e].is_ended
                  /\ w.exit = "shutdown" =>
                        /\ [v EXCEPT !.frameq = w.frameq, !.rx = w.rx, !.sent = w.sent,
                                     !.position = w.position] = w
                        /\ Len(v.frameq) <= Len(w.frameq)
                        /\ v.sent \in {w.sent, <<>>}
                        /\ v.position \in {w.position, 0}
                        /\ (player'[e].is_ended /\ ~player[e].is_ended) =>
                              \E j \in Threads(e) :
                                  /\ Alive(worker[e][j])
                                  /\ worker'[e][j].exit \in {"eos", "sendfail", "startfail"}]_vars

\* A worker of the long medium took Shutdown after its first frame
C24_Witness ==
    \E e \in Engines :
        /\ Len(worker[e]) >= 1
        /\ worker[e][1].url = "long"
        /\ worker[e][1].exit = "shutdown"
        /\ worker[e][1].sent = <<1>>
        /\ ~worker[e][1].is_ended

-----------------------------------------------------------------------------
(* The pacing clock of the worker (playback_start, pause_start, pause_offset) *)

\* The clock of the model runs from 0 to MaxNow; the worker takes up to MaxPaceCmds commands
MaxNow == 4
MaxPaceCmds == 3

PaceCmds == {"Pause", "Resume"}

\* `pause_start = Some(std::time::Instant::now())`
PauseStart(pause_start, now) == Some(now)

\* `if let Some(ps) = pause_start.take() { pause_offset += ps.elapsed(); }`
ResumeOffset(pause_offset, pause_start, now) ==
    IF pause_start = None THEN pause_offset ELSE pause_offset + (now - pause_start[1])

\* `playback_start.elapsed() - pause_offset`
Elapsed(playback_start, pause_offset, now) == (now - playback_start) - pause_offset

\* `let playback_start = Instant::now(); pause_offset = ZERO; pause_start = None;
\* is_paused = false`; paused_for is the time the worker has spent paused so far
PaceInit ==
    /\ EnginesIdle
    /\ svc = SvcOff
    /\ voe = SvcOff
    /\ pure = SvcOff
    /\ app = [pc |-> "pacing", now |-> 0, playback_start |-> 0, pause_offset |-> 0,
              pause_start |-> None, is_paused |-> FALSE, paused_for |-> 0,
              taken |-> <<>>, elapsed |-> None]

\* Time passes
PaceTick ==
    /\ app.pc = "pacing"
    /\ app.now < MaxNow
    /\ app' = [app EXCEPT !.now = @ + 1,
                          !.paused_for = IF app.is_paused THEN @ + 1 ELSE @,
                          !.elapsed = None]
    /\ UNCHANGED <<engineVars, svc, voe, pure>>

\* The worker takes a Pause from the command channel
PacePause ==
    /\ app.pc = "pacing"
    /\ Len(app.taken) < MaxPaceCmds
    /\ app' = [app EXCEPT !.is_paused = TRUE,
                          !.pause_start = PauseStart(@, app.now),
                          !.taken = Append(@, "Pause"),
                          !.elapsed = None]
    /\ UNCHANGED <<engineVars, svc, voe, pure>>

\* The worker takes a Resume from the command channel
PaceResume ==
    /\ app.pc = "pacing"
    /\ Len(app.taken) < MaxPaceCmds
    /\ app' = [app EXCEPT !.is_paused = FALSE,
                          !.pause_offset = ResumeOffset(@, app.pause_start, app.now),
                          !.pause_start = None,
                          !.taken = Append(@, "Resume"),
                          !.elapsed = None]
    /\ UNCHANGED <<engineVars, svc, voe, pure>>

\* A video frame is decoded (the worker is not paused) and paced
PaceFrame ==
    /\ app.pc = "pacing"
    /\ ~app.is_paused
    /\ app.elapsed = None
    /\ app' = [app EXCEPT !.elapsed =
                   Some(Elapsed(app.playback_start, app.pause_offset, app.now))]
    /\ UNCHANGED <<engineVars, svc, voe, pure>>

PaceNext == PaceTick \/ PacePause \/ PaceResume \/ PaceFrame

PaceSpec == PaceInit /\ [][PaceNext]_vars

\* C25: the elapsed time a frame is paced against is the time since playback start
\* minus the time the worker has spent paused, whatever commands it took.
C25_ElapsedTime ==
    (app.pc = "pacing" /\ app.elapsed # None) =>
        app.elapsed[1] = (app.now - app.playback_start) - app.paused_for

\* The part that holds: the same for command sequences in which no Pause is taken
\* while the worker is paused
C25_ElapsedAlternating ==
    (app.pc = "pacing" /\ app.elapsed # None
        /\ \A k \in 1..(Len(app.taken) - 1) :
              ~(app.taken[k] = "Pause" /\ app.taken[k + 1] = "Pause")) =>
        app.elapsed[1] = (app.now - app.playback_start) - app.paused_for

-----------------------------------------------------------------------------
(* Pause and the packets of the medium *)

\* The presentation times of the video packets of a container, in container order
RECURSIVE VideoPts(_)
VideoPts(packets) ==
    IF packets = <<>> THEN <<>>
    ELSE (IF Head(packets).stream = "video" THEN <<Head(packets).pts>> ELSE <<>>)
             \o VideoPts(Tail(packets))

\* C26: a worker that got to the end of its medium has sent a frame for every video
\* packet of it, in order, whether or not it was paused on the way.
C26_NoPacketLost ==
    \A e \in Engines : \A i \in 1..MaxPlays :
        (i \in Threads(e) /\ worker[e][i].pc = "sink_wait") =>
            worker[e][i].sent = VideoPts(Container(worker[e][i].url))

\* The part that holds: the frames sent are frames of the medium in container order,
\* none twice
C26_InOrder ==
    \A e \in Engines : \A i \in 1..MaxPlays :
        i \in Threads(e) =>
            \A j, k \in 1..Len(worker[e][i].sent) :
                j < k => worker[e][i].sent[j] < worker[e][i].sent[k]

-----------------------------------------------------------------------------
(* The frame ticks of the UI *)

\* The media played under the ticks: every one has video frames
TickCatalog == {<<1, "long">>, <<2, "av">>}

\* MoviePlayer::get_current_frame / VideoPlayer::get_frame: `self.current_frame.clone()`
get_frame(p) == p.current_frame

\* The frame the UI shows for a slot after a tick that got the frame f (0: None)
Shown(old, f) == IF f # 0 THEN f ELSE old

\* The UI as constructed: no slot shows a frame; each engine is played once, no other
\* facade call is made
TickInit ==
    /\ lim = [scope |-> Engines, plays |-> 1, cmds |-> 0, catalog |-> TickCatalog,
              ops |-> {}]
    /\ player = [e \in Engines |-> NewPlayer]
    /\ call = [e \in Engines |-> NoCall]
    /\ worker = [e \in Engines |-> <<>>]
    /\ delivered = [e \in Engines |-> <<>>]
    /\ ret = [e \in Engines |-> 0]
    /\ svc = SvcOff
    /\ voe = SvcOff
    /\ pure = SvcOff
    /\ app = [pc |-> "ui", frame |-> [e \in Engines |-> 0],
              ended |-> [e \in Engines |-> FALSE]]

\* handle_hero_frame_tick (and the card and detail ticks, which only get the frame):
\* check_ended(), then get_frame(); the frame channel is not touched
VideoTick(e) ==
    /\ app.pc = "ui"
    /\ Idle(e)
    /\ Kind(e) = "VideoPlayer"
    /\ player' = [player EXCEPT ![e].is_playing = IF Ended(e) THEN FALSE ELSE @]
    /\ app' = [app EXCEPT !.ended[e] = IF Ended(e) THEN TRUE ELSE @,
                          !.frame[e] = Shown(@, get_frame(player[e]))]
    /\ UNCHANGED <<lim, call, worker, delivered, ret, svc, voe, pure>>

\* handle_movie_frame_tick: get_new_frame() takes a frame from the channel; with none
\* taken and no frame shown yet, get_current_frame()
MovieTick(e) ==
    /\ app.pc = "ui"
    /\ Idle(e)
    /\ Kind(e) = "MoviePlayer"
    /\ LET p == player[e]
           r == p.frame_receiver
           some == IF r = 0 THEN FALSE ELSE worker[e][r].frameq # <<>>
       IN  IF some
           THEN LET f == TryRecv(worker[e][r].frameq)
                IN  /\ player' = [player EXCEPT ![e].current_frame = f]
                    /\ worker' = [worker EXCEPT ![e][r].frameq = AfterRecv(@)]
                    /\ delivered' = [delivered EXCEPT ![e] = Append(@, f)]
                    /\ app' = [app EXCEPT !.frame[e] = f]
           ELSE /\ app' = [app EXCEPT !.frame[e] = Shown(@, get_frame(p))]
                /\ UNCHANGED <<player, worker, delivered>>
    /\ UNCHANGED <<lim, call, ret, svc, voe, pure>>

TickNext ==
    \/ \E e \in Engines : Play(e)
    \/ \E e \in Engines : VideoTick(e)
    \/ \E e \in Engines : MovieTick(e)
    \/ \E e \in Engines : \E i \in Threads(e) : WorkerStart(e, i)
    \/ \E e \in Engines : \E i \in Threads(e) : WorkerRead(e, i)
    \/ \E e \in Engines : \E i \in Threads(e) : WorkerPacket(e, i)
    \/ \E e \in Engines : \E i \in Threads(e) : WorkerSend(e, i)
    \/ \E e \in Engines : \E i \in Threads(e) : WorkerEnd(e, i)
    \/ \E e \in Engines : \E i \in Threads(e) : SinkPlay(e, i)

TickSpec == TickInit /\ [][TickNext]_vars

\* The ticks of every slot keep being handled and the workers keep running
TickFairSpec ==
    /\ TickSpec
    /\ \A e \in Engines : WF_vars(VideoTick(e)) /\ WF_vars(MovieTick(e))
    /\ \A e \in Engines : Fair(e, 1)

\* The worker of the slot waits in send() with the frame channel full
BlockedOnSend(e) ==
    /\ Len(worker[e]) = 1
    /\ worker[e][1].pc = "send"
    /\ ~CanSend(worker[e][1])

\* C27: once the worker of a slot has sent a video frame, the slot's UI frame
\* eventually is non-empty, and a worker that waits on a full frame channel
\* eventually gets room.
C27_FramesReachUI ==
    \A e \in Engines :
        /\ (Len(worker[e]) = 1 /\ worker[e][1].sent # <<>>) ~> (app.frame[e] # 0)
        /\ BlockedOnSend(e) ~> ~BlockedOnSend(e)

\* The part that holds: the same for the full-screen player, whose tick takes frames
C27_MovieFrames ==
    /\ (Len(worker["movie"]) = 1 /\ worker["movie"][1].sent # <<>>)
           ~> (app.frame["movie"] # 0)
    /\ BlockedOnSend("movie") ~> ~BlockedOnSend("movie")

-----------------------------------------------------------------------------
(* The subscriptions of the UI (Movix::subscription) *)

Slots == {"hero", "card", "detail", "movie"}

FrameTicks == {"HeroFrameTick", "CardFrameTick", "DetailFrameTick", "MoviePlayerFrameTick"}

\* `try_lock().map(|p| p.is_playing()).unwrap_or(false)`
PlayingSeen(a, s) == s \notin a.locked /\ a.is_playing[s]

\* `self.movie_player_active && try_lock().map(|p| p.has_pipeline()).unwrap_or(false)`
MoviePlaying(a) ==
    a.movie_player_active /\ "movie" \notin a.locked /\ a.decoder_thread["movie"]

\* Movix::subscription: the messages subscribed to in the state a of the application
subscription(a) ==
    (IF PlayingSeen(a, "hero") /\ ~a.movie_player_active /\ ~a.detail_popup_open
     THEN {"HeroFrameTick"} ELSE {})
    \cup (IF PlayingSeen(a, "card") /\ ~a.movie_player_active /\ ~a.detail_popup_open
          THEN {"CardFrameTick"} ELSE {})
    \cup (IF PlayingSeen(a, "detail") /\ a.detail_popup_open /\ ~a.movie_player_active
          THEN {"DetailFrameTick"} ELSE {})
    \cup (IF MoviePlaying(a) THEN {"MoviePlayerFrameTick"} ELSE {})
    \cup (CASE a.search_debounce_timer = "none" -> {}
            [] a.search_debounce_timer = "due" -> {"SearchDebounceTriggered"}
            [] OTHER -> {"HeroFrameTick"})

\* Movix::new: no player plays, nothing is open, no search is pending
SubInit ==
    /\ EnginesIdle
    /\ svc = SvcOff
    /\ voe = SvcOff
    /\ pure = SvcOff
    /\ app = [pc |-> "subs", is_playing |-> [s \in Slots |-> FALSE],
              decoder_thread |-> [s \in Slots |-> FALSE], locked |-> {},
              movie_player_active |-> FALSE, detail_popup_open |-> FALSE,
              search_debounce_timer |-> "none"]

\* play(): `self.decoder_thread = Some(handle); self.is_playing = true`
SubPlay(s) ==
    /\ app.pc = "subs"
    /\ app' = [app EXCEPT !.is_playing[s] = TRUE, !.decoder_thread[s] = TRUE]
    /\ UNCHANGED <<engineVars, svc, voe, pure>>

\* stop(): `self.decoder_thread.take()`, `self.is_playing = false`
SubStop(s) ==
    /\ app.pc = "subs"
    /\ app' = [app EXCEPT !.is_playing[s] = FALSE, !.decoder_thread[s] = FALSE]
    /\ UNCHANGED <<engineVars, svc, voe, pure>>

\* pause(), and VideoPlayer::check_ended on a set flag: `self.is_playing = false`
SubPause(s) ==
    /\ app.pc = "subs"
    /\ app.is_playing[s]
    /\ app' = [app EXCEPT !.is_playing[s] = FALSE]
    /\ UNCHANGED <<engineVars, svc, voe, pure>>

\* resume(): `self.is_playing = true`
SubResume(s) ==
    /\ app.pc = "subs"
    /\ ~app.is_playing[s]
    /\ app' = [app EXCEPT !.is_playing[s] = TRUE]
    /\ UNCHANGED <<engineVars, svc, voe, pure>>

\* A task takes or drops the lock of a player
SubLock(s) ==
    /\ app.pc = "subs"
    /\ app' = [app EXCEPT !.locked = IF s \in @ THEN @ \ {s} ELSE @ \cup {s}]
    /\ UNCHANGED <<engineVars, svc, voe, pure>>

\* The full-screen player is opened or closed, the detail popup opened or closed
SubScreen ==
    /\ app.pc = "subs"
    /\ \/ app' = [app EXCEPT !.movie_player_active = ~@]
       \/ app' = [app EXCEPT !.detail_popup_open = ~@]
    /\ UNCHANGED <<engineVars, svc, voe, pure>>

\* The search text changes (the timer is set), 300 ms pass, the search is triggered or
\* cleared (the timer is None)
SubSearch ==
    /\ app.pc = "subs"
    /\ \/ app' = [app EXCEPT !.search_debounce_timer = "set"]
       \/ app.search_debounce_timer = "set" /\ app' = [app EXCEPT !.search_debounce_timer = "due"]
       \/ app.search_debounce_timer # "none" /\ app' = [app EXCEPT !.search_debounce_timer = "none"]
    /\ UNCHANGED <<engineVars, svc, voe, pure>>

SubNext ==
    \/ \E s \in Slots : SubPlay(s)
    \/ \E s \in Slots : SubStop(s)
    \/ \E s \in Slots : SubPause(s)
    \/ \E s \in Slots : SubResume(s)
    \/ \E s \in Slots : SubLock(s)
    \/ SubScreen
    \/ SubSearch

SubSpec == SubInit /\ [][SubNext]_vars

\* C28: whenever a frame tick is subscribed to, some facade reports is_playing.
C28_TicksOnlyWhilePlaying ==
    app.pc = "subs" =>
        (subscription(app) \cap FrameTicks # {} => \E s \in Slots : app.is_playing[s])

\* The part that holds: the card and the detail tick are subscribed to only while
\* their player reports is_playing, and so is the hero tick when no search is pending
C28_VideoTicks ==
    app.pc = "subs" =>
        /\ "CardFrameTick" \in subscription(app) => app.is_playing["card"]
        /\ "DetailFrameTick" \in subscription(app) => app.is_playing["detail"]
        /\ ("HeroFrameTick" \in subscription(app) /\ app.search_debounce_timer = "none")
               => app.is_playing["hero"]

-----------------------------------------------------------------------------
(* is_playing and the worker *)

\* The facade of engine e reports is_playing() with has_pipeline() false, outside a call
PlayingWithoutWorker(e) ==
    /\ call[e].op = "none"
    /\ player[e].is_playing
    /\ player[e].decoder_thread = 0

\* C31: in every reachable state of a facade, is_playing() = true implies that the
\* facade has a worker (has_pipeline() = true), whatever calls were made
C31_PlayingHasWorker == \A e \in Engines : ~PlayingWithoutWorker(e)

\* The part that holds: the flag is set without a worker only by a call made on a
\* facade that has none (resume(), or toggle_play_pause() of a facade not playing)
C31_OnlyByResume ==
    [][\A e \in Engines :
          (PlayingWithoutWorker(e)' /\ ~PlayingWithoutWorker(e))
              => (call[e].op = "none" /\ player[e].decoder_thread = 0
                  /\ ~player[e].is_playing /\ worker'[e] = worker[e])]_vars

-----------------------------------------------------------------------------
(* The gain of the audio sink *)

\* The gain the facade of engine e stands for: 0 when muted, else its volume
\* (a VideoPlayer has no volume: 1.0)
FacadeGain(e) ==
    IF player[e].is_muted THEN 0
    ELSE IF Kind(e) = "VideoPlayer" THEN 100 ELSE player[e].volume

\* The current worker of engine e has a sink and has taken every command sent to it
Settled(e) ==
    /\ player[e].command_sender # 0
    /\ LET w == worker[e][player[e].command_sender]
       IN  Alive(w) /\ w.pc # "audio_out" /\ w.cmdq = <<>>

\* C32: whenever a worker has processed every command sent to it, its sink gain is 0
\* if the facade reports is_muted() and otherwise the facade's volume, also for a
\* worker started while the facade was already muted or below full volume
C32_GainFollowsFacade ==
    \A e \in Engines :
        Settled(e) => worker[e][player[e].command_sender].sink_vol = FacadeGain(e)

\* The part that holds: a worker that takes the last mute or volume command sent to
\* it leaves its sink at the gain of the facade
C32_GainAfterCommand ==
    [][\A e \in Engines : \A i \in Threads(e) :
          (/\ Len(worker[e][i].cmdq) = 1
           /\ Head(worker[e][i].cmdq).c \in {"ToggleMute", "SetVolume"}
           /\ worker'[e][i].cmdq = <<>>
           /\ Alive(worker'[e][i]))
              => worker'[e][i].sink_vol = FacadeGain(e)]_vars

-----------------------------------------------------------------------------
(* The full-screen player: PlayContent, MoviePlayerStreamResolved, MoviePlayerClose *)

\* PlayContent messages handled in a run
MaxRequests == 2

\* Titles listed in content_sections
Listed == {1, 2}

\* A task that waits for the movie player's lock
PlayerTask(op, id) == [op |-> op, id |-> id]

\* s without its i-th element
Without(s, i) == SubSeq(s, 1, i - 1) \o SubSeq(s, i + 1, Len(s))

MovieInit ==
    /\ EnginesIdle
    /\ svc = SvcOff
    /\ voe = SvcOff
    /\ pure = SvcOff
    /\ app = [pc |-> "movie", movie_player_active |-> FALSE, movie_player_media_id |-> 0,
              movie_player_loading |-> FALSE, movie_player_error |-> FALSE,
              resolving |-> <<>>, tasks |-> <<>>, requests |-> 0,
              decoder_thread |-> FALSE, current_media_id |-> 0]

\* handle_play_content(app, id): the buttons that send PlayContent are part of the main
\* view, which is not drawn while the full-screen player is active
handle_play_content(id) ==
    /\ app.pc = "movie"
    /\ ~app.movie_player_active
    /\ app.requests < MaxRequests
    /\ app' = [app EXCEPT !.movie_player_active = TRUE, !.movie_player_media_id = id,
                          !.movie_player_loading = TRUE, !.movie_player_error = FALSE,
                          !.resolving = Append(@, id), !.requests = @ + 1]
    /\ UNCHANGED <<engineVars, svc, voe, pure>>

\* handle_movie_stream_resolved(app, media_id, result): get_download_url of the i-th
\* resolution in flight has returned.  The handler looks neither at movie_player_active
\* nor at movie_player_media_id
handle_movie_stream_resolved(i, ok) ==
    /\ app.pc = "movie"
    /\ i \in 1..Len(app.resolving)
    /\ LET id == app.resolving[i]
           a  == [app EXCEPT !.resolving = Without(@, i)]
       IN  IF ok
           THEN app' = [a EXCEPT !.movie_player_loading = FALSE,
                                 !.tasks = Append(@, PlayerTask("play", id))]
           ELSE app' = [a EXCEPT !.movie_player_loading = FALSE, !.movie_player_error = TRUE]
    /\ UNCHANGED <<engineVars, svc, voe, pure>>

\* handle_movie_player_close(app): the close button of the full-screen player
handle_movie_player_close ==
    /\ app.pc = "movie"
    /\ app.movie_player_active
    /\ app' = [app EXCEPT !.movie_player_active = FALSE, !.movie_player_error = FALSE,
                          !.tasks = Append(@, PlayerTask("close", 0))]
    /\ UNCHANGED <<engineVars, svc, voe, pure>>

\* One of the spawned tasks gets the lock of the movie player and runs to its end:
\* p.play(media_id, &url), or p.stop()
MovieTask(i) ==
    /\ app.pc = "movie"
    /\ i \in 1..Len(app.tasks)
    /\ LET t == app.tasks[i]
           a == [app EXCEPT !.tasks = Without(@, i)]
       IN  IF t.op = "play"
           THEN app' = [a EXCEPT !.decoder_thread = TRUE, !.current_media_id = t.id]
           ELSE app' = [a EXCEPT !.decoder_thread = FALSE, !.current_media_id = 0]
    /\ UNCHANGED <<engineVars, svc, voe, pure>>

MovieNext ==
    \/ \E id \in Listed : handle_play_content(id)
    \/ \E i \in 1..MaxRequests : \E ok \in BOOLEAN : handle_movie_stream_resolved(i, ok)
    \/ handle_movie_player_close
    \/ \E i \in 1..(2 * MaxRequests) : MovieTask(i)

MovieSpec == MovieInit /\ [][MovieNext]_vars

\* C33: whenever the full-screen engine has a worker, movie_player_active is true and
\* the engine's current media id equals movie_player_media_id, for every interleaving
\* of PlayContent, MoviePlayerStreamResolved and MoviePlayerClose (read for the states
\* in which no spawned task still waits for the player)
C33_WorkerOnlyWhileActive ==
    (app.pc = "movie" /\ app.decoder_thread /\ app.tasks = <<>>) =>
        (app.movie_player_active /\ app.current_media_id = app.movie_player_media_id)

\* The part that holds: the engine plays only a title whose resolution was requested
\* by a PlayContent, and a worker without an active player has a close or a stale
\* resolution behind it
C33_PlaysRequested ==
    (app.pc = "movie" /\ app.decoder_thread) =>
        (app.current_media_id \in Listed /\ app.requests > 0)

-----------------------------------------------------------------------------
(* PlayContent and the trailer players: the try_lock stop task *)

\* Tasks that play or resume a trailer spawned in a run
MaxTrailerTasks == 2

\* hero_player and card_player
Previews == {"hero", "card"}

\* A spawned task on the player of slot s: it waits for the lock ("wait") or holds it ("hold")
PreviewTask(op, s) == [op |-> op, slot |-> s, pc |-> "wait"]

\* The tokio Mutex of the player of slot s is free
LockFree(a, s) == \A i \in 1..Len(a.tasks) : ~(a.tasks[i].slot = s /\ a.tasks[i].pc = "hold")

\* A stop task spawned by handle_play_content has not run to its end
StopPending(a) == \E i \in 1..Len(a.tasks) : a.tasks[i].op = "stop"

PreviewInit ==
    /\ EnginesIdle
    /\ svc = SvcOff
    /\ voe = SvcOff
    /\ pure = SvcOff
    /\ app = [pc |-> "previews", movie_player_active |-> FALSE,
              decoder_thread |-> [s \in Previews |-> FALSE],
              tasks |-> <<>>, spawned |-> 0, requests |-> 0]

\* handle_trailer_stream_url_loaded: nothing while the full-screen player is active,
\* else a task that plays the trailer on the hero player (the hero title, visible) or
\* on the card player (the hovered card)
handle_trailer_stream_url_loaded(s) ==
    /\ app.pc = "previews"
    /\ app.spawned < MaxTrailerTasks
    /\ IF app.movie_player_active
       THEN app' = [app EXCEPT !.spawned = @ + 1]
       ELSE app' = [app EXCEPT !.spawned = @ + 1, !.tasks = Append(@, PreviewTask("play", s))]
    /\ UNCHANGED <<engineVars, svc, voe, pure>>

\* handle_resume_hero_trailer: nothing while the full-screen player is active; a resume
\* task if try_lock succeeds and the hero player has a pipeline, else a play task when
\* the URL of the hero title is cached
handle_resume_hero_trailer(cached) ==
    /\ app.pc = "previews"
    /\ app.spawned < MaxTrailerTasks
    /\ LET a == [app EXCEPT !.spawned = @ + 1]
           has_pipeline == LockFree(app, "hero") /\ app.decoder_thread["hero"]
       IN  IF app.movie_player_active THEN app' = a
           ELSE IF has_pipeline
           THEN app' = [a EXCEPT !.tasks = Append(@, PreviewTask("resume", "hero"))]
           ELSE IF cached
           THEN app' = [a EXCEPT !.tasks = Append(@, PreviewTask("play", "hero"))]
           ELSE app' = a
    /\ UNCHANGED <<engineVars, svc, voe, pure>>

\* handle_play_content: the full-screen player becomes active and the stop task is spawned
PlayContent ==
    /\ app.pc = "previews"
    /\ ~app.movie_player_active
    /\ app.requests < MaxRequests
    /\ app' = [app EXCEPT !.movie_player_active = TRUE, !.requests = @ + 1,
                          !.tasks = Append(@, PreviewTask("stop", "hero"))]
    /\ UNCHANGED <<engineVars, svc, voe, pure>>

\* handle_movie_player_close, as far as the trailer players see it
PreviewClose ==
    /\ app.pc = "previews"
    /\ app.movie_player_active
    /\ app' = [app EXCEPT !.movie_player_active = FALSE]
    /\ UNCHANGED <<engineVars, svc, voe, pure>>

\* `if let Ok(mut h) = player.try_lock() { h.stop(); }`: a player whose lock is held
\* by another task is left as it is
StopSkipped(a, s) == ~LockFree(a, s)

\* The stop task of handle_play_content: first the hero player, then the card player
StopTask(i) ==
    /\ app.pc = "previews"
    /\ i \in 1..Len(app.tasks)
    /\ app.tasks[i].op = "stop"
    /\ LET s == app.tasks[i].slot
           a == IF StopSkipped(app, s) THEN app
                ELSE [app EXCEPT !.decoder_thread[s] = FALSE]
       IN  IF s = "hero"
           THEN app' = [a EXCEPT !.tasks[i].slot = "card"]
           ELSE app' = [a EXCEPT !.tasks = Without(@, i)]
    /\ UNCHANGED <<engineVars, svc, voe, pure>>

\* player.lock().await of a play or resume task returns
PreviewLock(i) ==
    /\ app.pc = "previews"
    /\ i \in 1..Len(app.tasks)
    /\ app.tasks[i].op # "stop"
    /\ app.tasks[i].pc = "wait"
    /\ LockFree(app, app.tasks[i].slot)
    /\ app' = [app EXCEPT !.tasks[i].pc = "hold"]
    /\ UNCHANGED <<engineVars, svc, voe, pure>>

\* p.play(media_id, &url) or p.resume() under the lock, and the guard is dropped
PreviewRun(i) ==
    /\ app.pc = "previews"
    /\ i \in 1..Len(app.tasks)
    /\ app.tasks[i].pc = "hold"
    /\ LET t == app.tasks[i]
           a == [app EXCEPT !.tasks = Without(@, i)]
       IN  IF t.op = "play"
           THEN app' = [a EXCEPT !.decoder_thread[t.slot] = TRUE]
           ELSE app' = a
    /\ UNCHANGED <<engineVars, svc, voe, pure>>

PreviewNext ==
    \/ \E s \in Previews : handle_trailer_stream_url_loaded(s)
    \/ \E cached \in BOOLEAN : handle_resume_hero_trailer(cached)
    \/ PlayContent
    \/ PreviewClose
    \/ \E i \in 1..(MaxTrailerTasks + MaxRequests) : StopTask(i)
    \/ \E i \in 1..(MaxTrailerTasks + MaxRequests) : PreviewLock(i)
    \/ \E i \in 1..(MaxTrailerTasks + MaxRequests) : PreviewRun(i)

PreviewSpec == PreviewInit /\ [][PreviewNext]_vars

\* C34: once PlayContent has been handled and its stop task has finished, neither the
\* hero player nor the card player has a worker for as long as movie_player_active
\* stays true
C34_TrailersStopped ==
    (app.pc = "previews" /\ app.movie_player_active /\ ~StopPending(app)) =>
        \A s \in Previews : ~app.decoder_thread[s]

\* The part that holds: while the full-screen player is active no handler spawns a
\* task that plays or resumes a trailer
C34_NoTaskSpawnedWhileActive ==
    [][(app.pc = "previews" /\ app.movie_player_active /\ app'.movie_player_active)
          => Len(app'.tasks) <= Len(app.tasks)]_vars

-----------------------------------------------------------------------------
(* The ended flag of a worker that has exited *)

\* The worker the facade of engine e holds the handle of has exited in one of the ways
\* `how`, and the flag the facade reads is not set
ExitedUnnoticed(e, how) ==
    /\ player[e].decoder_thread # 0
    /\ LET w == worker[e][player[e].decoder_thread]
       IN  ~Alive(w) /\ w.exit \in how
    /\ ~Ended(e)

\* C35: if a worker thread has exited without having taken a Shutdown command, the
\* engine's ended flag is true, for every way the thread can exit, including a panic
\* raised while computing a frame time from a negative presentation timestamp
C35_ExitSetsEnded ==
    \A e \in Engines : ~ExitedUnnoticed(e, {"startfail", "eos", "sendfail", "panic"})

\* The part that holds: a worker that returned from its thread function without a
\* Shutdown has stored the ended flag
C35_ReturnSetsEnded ==
    \A e \in Engines : ~ExitedUnnoticed(e, {"startfail", "eos", "sendfail"})

-----------------------------------------------------------------------------
(* The ended flag, the position and the frames after a later play() *)

\* play() of engine e returns in this step: its worker has been spawned
PlayReturns(e) == Len(worker'[e]) = Len(worker[e]) + 1

\* The thread spawned by the latest play() of engine e exits in this step
CurrentWorkerExits(e) ==
    LET n == Len(worker[e])
    IN  /\ n > 0
        /\ Len(worker'[e]) = n
        /\ Alive(worker[e][n])
        /\ ~Alive(worker'[e][n])

\* C36: after play() returns, check_ended() returns false until the worker started by
\* that play() sets the ended flag; a worker started by an earlier play() of the same
\* engine is gone when the later play() returns, so it sets no flag and publishes no
\* position or frame that the facade observes afterwards
C36_EndedByCurrentWorker ==
    /\ [][\A e \in Engines :
            /\ PlayReturns(e) => ~Ended(e)'
            /\ (~Ended(e) /\ Ended(e)') => CurrentWorkerExits(e)]_vars
    /\ [](\A e \in Engines : \A i \in 1..(Len(worker[e]) - 1) : ~Alive(worker[e][i]))
    /\ [](\A e \in Engines :
            /\ player[e].frame_receiver \in {0, Len(worker[e])}
            /\ player[e].shared_state \in {0, Len(worker[e])}
            /\ \A i \in 1..(Len(worker[e]) - 1) : worker[e][i].frameq = <<>>)

\* The first worker of the hero engine reached the end of its stream and set the flag,
\* a second play() has returned, and check_ended() would return false
C36_Witness ==
    /\ Len(worker["hero"]) = 2
    /\ worker["hero"][1].exit = "eos"
    /\ call["hero"].op = "none"
    /\ player["hero"].decoder_thread = 2
    /\ Alive(worker["hero"][2])
    /\ ~Ended("hero")

-----------------------------------------------------------------------------
(* The error "No providers available" *)

\* get_stream_url has returned Err(NotFound("No providers available"))
ReturnedNoProviders == svc.pc = "done" /\ ~svc.result.ok /\ svc.result.val = NoProviders

\* C37: get_stream_url fails with the error "No providers available" only when the
\* service has no registered provider; when a provider returned a page URL that no
\* registered resolver can handle, the returned error is another one
C37_NoProvidersOnlyWhenNone == ReturnedNoProviders => Len(svc.providers) = 0

\* The part that holds: the error is returned only when no provider failed and no
\* resolver was asked to resolve a page
C37_NoProvidersWhenNothingFailed ==
    ReturnedNoProviders =>
        /\ \A a \in 1..Len(svc.providers) : svc.providers[a].ok
        /\ \A k \in 1..Len(svc.log) : svc.log[k][1] = "provider"

-----------------------------------------------------------------------------
(* Hovering a card: HoverCard and HoverCardDelayed *)

\* HoverCard events in a run
MaxHovers == 3

\* The message HoverCardDelayed(id) a hover has scheduled; nth tells which hover did
Delayed(id, nth) == [id |-> id, nth |-> nth]

HoverInit ==
    /\ EnginesIdle
    /\ svc = SvcOff
    /\ voe = SvcOff
    /\ pure = SvcOff
    /\ app = [pc |-> "hover", pending_hover_card |-> 0, hovered_card |-> 0,
              detail_popup_open |-> FALSE, movie_player_active |-> FALSE,
              timers |-> <<>>, hovers |-> 0, latest |-> 0, loads |-> 0]

\* handle_hover_card(app, Some(media_id)): the card is noted as pending and the message
\* HoverCardDelayed(media_id) is scheduled 300 ms ahead
HoverCardSome(id) ==
    /\ app.pc = "hover"
    /\ app.hovers < MaxHovers
    /\ LET n == app.hovers + 1
           a == [app EXCEPT !.hovers = n, !.latest = n]
       IN  IF app.detail_popup_open \/ app.movie_player_active
           THEN app' = a
           ELSE app' = [a EXCEPT !.pending_hover_card = id,
                                 !.timers = Append(@, Delayed(id, n))]
    /\ UNCHANGED <<engineVars, svc, voe, pure>>

\* handle_hover_card(app, None): the pointer left the card
HoverCardNone ==
    /\ app.pc = "hover"
    /\ app.hovers < MaxHovers
    /\ LET a == [app EXCEPT !.hovers = @ + 1]
       IN  IF app.detail_popup_open \/ app.movie_player_active
           THEN app' = a
           ELSE app' = [a EXCEPT !.pending_hover_card = 0, !.hovered_card = 0]
    /\ UNCHANGED <<engineVars, svc, voe, pure>>

\* `app.pending_hover_card != Some(media_id)` negated: the ids are compared
IsPending(a, m) == a.pending_hover_card = m.id

\* handle_hover_card_delayed(app, media_id): the sleeps are equally long, so the
\* delayed messages arrive in the order they were scheduled
HoverCardDelayed ==
    /\ app.pc = "hover"
    /\ app.timers # <<>>
    /\ LET m == Head(app.timers)
           a == [app EXCEPT !.timers = Tail(@)]
       IN  IF app.detail_popup_open \/ app.movie_player_active THEN app' = a
           ELSE IF ~IsPending(app, m) THEN app' = a
           ELSE app' = [a EXCEPT !.hovered_card = m.id, !.loads = @ + 1]
    /\ UNCHANGED <<engineVars, svc, voe, pure>>

\* The detail popup is opened or closed
HoverPopup ==
    /\ app.pc = "hover"
    /\ app' = [app EXCEPT !.detail_popup_open = ~@]
    /\ UNCHANGED <<engineVars, svc, voe, pure>>

\* handle_play_content clears both cards; handle_movie_player_close
HoverMovie ==
    /\ app.pc = "hover"
    /\ IF app.movie_player_active
       THEN app' = [app EXCEPT !.movie_player_active = FALSE]
       ELSE app' = [app EXCEPT !.movie_player_active = TRUE, !.hovered_card = 0,
                               !.pending_hover_card = 0]
    /\ UNCHANGED <<engineVars, svc, voe, pure>>

HoverNext ==
    \/ \E id \in MediaIds : HoverCardSome(id)
    \/ HoverCardNone
    \/ HoverCardDelayed
    \/ HoverPopup
    \/ HoverMovie

HoverSpec == HoverInit /\ [][HoverNext]_vars

\* A delayed message sets hovered_card and starts the loads in this step
SetsHovered == app.pc = "hover" /\ app'.loads = app.loads + 1

\* C38: hovered_card is set to a card X only by the HoverCardDelayed(X) message that
\* was scheduled by the most recent HoverCard(Some(X)) event; a delayed message of an
\* earlier hover never sets hovered_card or starts a trailer load
C38_OnlyLatestHover ==
    [][SetsHovered => Head(app.timers).nth = app.latest]_vars

\* The part that holds: hovered_card is set only to the card of the most recent
\* HoverCard(Some(_)) event that was taken, by a delayed message that names that card
C38_OnlyPendingCard ==
    [][SetsHovered =>
          /\ app'.hovered_card = Head(app.timers).id
          /\ app'.hovered_card = app.pending_hover_card]_vars

-----------------------------------------------------------------------------
(* The frame receiver of a live worker *)

\* C39: in every reachable state of an engine, a live worker implies that the facade
\* still holds that worker's frame receiver: stop() and play() drop the receiver only
\* after the worker thread has been joined, so no worker leaves through the
\* send-failure branch
C39_ReceiverHeld ==
    \A e \in Engines : \A i \in Threads(e) :
        /\ Alive(worker[e][i]) => (worker[e][i].rx /\ player[e].frame_receiver = i)
        /\ worker[e][i].exit # "sendfail"

\* The first worker of the hero engine took the Shutdown of a later play(), was joined,
\* and its receiver was dropped; the second worker is live and its receiver is held
C39_Witness ==
    /\ Len(worker["hero"]) = 2
    /\ worker["hero"][1].exit = "shutdown"
    /\ ~worker["hero"][1].rx
    /\ Alive(worker["hero"][2])
    /\ worker["hero"][2].rx
    /\ worker["hero"][2].sent # <<>>
    /\ player["hero"].frame_receiver = 2

====
